---- MODULE Spec2Model ----
(***************************************************************************)
(* treesync: diff and synchronize two directory trees.                     *)
(*                                                                         *)
(* The filesystem is a function from absolute paths (sequences of          *)
(* filenames) to nodes.  A run of the program is main() followed by the    *)
(* merge loop of TreeDiff::processDir, one loop iteration per step, with   *)
(* an explicit stack of processDir activations.  Every step appends to     *)
(* `trace` the classification events, the lines written to stdout and the  *)
(* filesystem calls, in program order.                                     *)
(***************************************************************************)
EXTENDS Integers, Sequences, FiniteSets, TLC

VARIABLES fs, fs0, opts, pc, stack, trace, err, ret, runs

vars == <<fs, fs0, opts, pc, stack, trace, err, ret, runs>>

---------------------------------------------------------------------------
(* Bounds of the model.                                                    *)

\* Initial modification times are drawn from 1..MaxMtime.
MaxMtime == 2
\* At most MaxRuns consecutive runs are started on one pair of trees.
MaxRuns == 3
\* Number of symbolic links followed while resolving one path (ELOOP).
MaxLinks == 2

\* The time stamped on entries created by a run: later than all initial ones.
Now == MaxMtime + 1

---------------------------------------------------------------------------
(* Filenames.  A filename is a string; Bytes gives its UTF-8 bytes, which  *)
(* decide std::string ordering and prefix tests.                           *)

\* "e_nfc" is U+00E9 (e with acute, precomposed); "e_nfd" is U+0065 U+0301,
\* its canonical decomposition.
Bytes ==
  [n \in {"._a", "a", "b", "c", "e_nfc", "e_nfd"} |->
     CASE n = "._a"   -> <<46, 95, 97>>
       [] n = "a"     -> <<97>>
       [] n = "b"     -> <<98>>
       [] n = "c"     -> <<99>>
       [] n = "e_nfc" -> <<195, 169>>
       [] n = "e_nfd" -> <<101, 204, 129>>]

Names == DOMAIN Bytes

\* ut1::toNfd: canonical decomposition of a filename.
toNfd(n) == IF n = "e_nfc" THEN "e_nfd" ELSE n

RECURSIVE SeqLess(_, _)
SeqLess(x, y) ==
  IF y = <<>> THEN FALSE
  ELSE IF x = <<>> THEN TRUE
  ELSE IF Head(x) # Head(y) THEN Head(x) < Head(y)
  ELSE SeqLess(Tail(x), Tail(y))

\* std::string operator< on two filenames.
NameLess(a, b) == SeqLess(Bytes[a], Bytes[b])

\* ut1::hasPrefix(filename, "._")
hasForkPrefix(n) ==
  /\ Len(Bytes[n]) >= 2
  /\ Bytes[n][1] = 46
  /\ Bytes[n][2] = 95

\* Mutant: descending order.
RECURSIVE SortNames_Desc(_)
SortNames_Desc(S) ==
  IF S = {} THEN <<>>
  ELSE LET m == CHOOSE x \in S : \A y \in S \ {x} : NameLess(y, x)
       IN  <<m>> \o SortNames_Desc(S \ {m})

\* The elements of a finite set of filenames in ascending std::string order.
RECURSIVE SortNames(_)
SortNames(S) ==
  IF S = {} THEN <<>>
  ELSE LET m == CHOOSE x \in S : \A y \in S \ {x} : NameLess(x, y)
       IN  <<m>> \o SortNames(S \ {m})

---------------------------------------------------------------------------
(* The filesystem provider.                                                *)

SRCDIR == <<"S">>
DSTDIR == <<"D">>
INSDIR == <<"I">>
DELDIR == <<"X">>

NoPath == <<>>
NoNode == [kind |-> "none", data |-> <<>>, mtime |-> 0, target |-> NoPath]

DirNode(m)     == [kind |-> "dir", data |-> <<>>, mtime |-> m, target |-> NoPath]
FileNode(d, m) == [kind |-> "file", data |-> d, mtime |-> m, target |-> NoPath]
LinkNode(t, m) == [kind |-> "symlink", data |-> <<>>, mtime |-> m, target |-> t]
FifoNode(m)    == [kind |-> "fifo", data |-> <<>>, mtime |-> m, target |-> NoPath]

Front(p) == SubSeq(p, 1, Len(p) - 1)
Last(p)  == p[Len(p)]
IsPrefix(p, q) == Len(p) <= Len(q) /\ SubSeq(q, 1, Len(p)) = p

\* Resolve `rest` below the resolved directory `cur`, following every
\* symbolic link met (at most `fuel` of them).  NoPath if a component is
\* missing, is no directory, or too many links are met; the result may name
\* a missing entry only in its last component.
RECURSIVE Walk(_, _, _, _)
Walk(f, cur, rest, fuel) ==
  IF rest = <<>> THEN cur
  ELSE LET nxt == Append(cur, Head(rest))
       IN  IF nxt \notin DOMAIN f
           THEN IF Len(rest) = 1 THEN nxt ELSE NoPath
           ELSE IF f[nxt].kind = "symlink"
           THEN IF fuel = 0 THEN NoPath
                ELSE Walk(f, <<>>, f[nxt].target \o Tail(rest), fuel - 1)
           ELSE IF Len(rest) > 1 /\ f[nxt].kind # "dir" THEN NoPath
           ELSE Walk(f, nxt, Tail(rest), fuel)

\* The place of path p itself (links in the directory part followed, the
\* last component not).
LPlace(f, p) ==
  IF Len(p) <= 1 THEN p
  ELSE LET par == Walk(f, <<>>, Front(p), MaxLinks)
       IN  IF par = NoPath \/ par \notin DOMAIN f THEN NoPath
           ELSE IF f[par].kind # "dir" THEN NoPath
           ELSE Append(par, Last(p))

\* The place p leads to when a final symbolic link is followed too.
Place(f, p) == IF p = NoPath THEN NoPath ELSE Walk(f, <<>>, p, MaxLinks)

NodeAt(f, q) == IF q # NoPath /\ q \in DOMAIN f THEN f[q] ELSE NoNode

\* lstat(2) and stat(2).
LStat(f, p) == NodeAt(f, LPlace(f, p))
Stat(f, p)  == NodeAt(f, Place(f, p))
StatF(f, p, follow) == IF follow THEN Stat(f, p) ELSE LStat(f, p)

\* std::filesystem::directory_iterator(p): the filenames in directory p.
\* The order of the iterator is unspecified: a directory whose node has
\* data <<>> lists its names in ascending order, any other one in descending
\* order.
ListDir(f, p) ==
  LET d == Place(f, p)
      ns == SortNames({Last(q) : q \in {r \in DOMAIN f : Len(r) = Len(d) + 1 /\ Front(r) = d}})
  IN  IF d = NoPath \/ d \notin DOMAIN f THEN <<>>
      ELSE IF f[d].data = <<>> THEN ns
      ELSE [n \in 1..Len(ns) |-> ns[Len(ns) + 1 - n]]

\* ut1::fsExists, ut1::fsIsDirectory, ut1::fsIsRegular
fsExists(f, p) == LStat(f, p).kind # "none"
fsIsDirectory(f, p, follow) == StatF(f, p, follow).kind = "dir"
fsIsRegular(f, p, follow) == StatF(f, p, follow).kind = "file"

\* ut1::getFileType(entry, followSymlinks): the kind, "none" for FT_NON_EXISTING.
getFileType(f, p, follow) == StatF(f, p, follow).kind

\* ut1::getFileTypeStr(entry, followSymlinks)
getFileTypeStr(f, p, follow) == getFileType(f, p, follow)

\* ut1::getLastWriteTime(entry, followSymlinks)
getLastWriteTime(f, p, follow) == StatF(f, p, follow).mtime

\* directory_entry::file_size() and ut1::readFile(): both follow links.
file_size(f, p) == Len(Stat(f, p).data)
readFile(f, p) == Stat(f, p).data

\* std::filesystem::read_symlink
read_symlink(f, p) == LStat(f, p).target

\* directory_entry::is_directory(): status(), which follows links.
is_directory(f, p) == Stat(f, p).kind = "dir"

---------------------------------------------------------------------------
(* std::filesystem operations.  Each returns [f |-> the new filesystem,    *)
(* e |-> "" or the message of the filesystem_error it throws].             *)

AddNode(f, q, n) == [x \in DOMAIN f \cup {q} |-> IF x = q THEN n ELSE f[x]]
DelNode(f, q) == [x \in DOMAIN f \ {q} |-> f[x]]
Kids(f, q) == {r \in DOMAIN f : Len(r) = Len(q) + 1 /\ Front(r) = q}

Ok(f) == [f |-> f, e |-> ""]
Fail(f, msg) == [f |-> f, e |-> msg]

\* std::filesystem::remove(p): unlink or rmdir; a missing p is no error.
FsRemove(f, p) ==
  LET q == LPlace(f, p)
  IN  IF q = NoPath \/ q \notin DOMAIN f THEN Ok(f)
      ELSE IF f[q].kind = "dir" /\ Kids(f, q) # {} THEN Fail(f, "remove: directory not empty")
      ELSE Ok(DelNode(f, q))

\* std::filesystem::create_directories(p)
RECURSIVE FsCreateDirectories(_, _)
FsCreateDirectories(f, p) ==
  IF p = NoPath THEN Ok(f)
  ELSE IF Stat(f, p).kind = "dir" THEN Ok(f)
  ELSE IF LStat(f, p).kind # "none" THEN Fail(f, "create_directories: not a directory")
  ELSE LET r == FsCreateDirectories(f, Front(p))
           q == LPlace(r.f, p)
       IN  IF r.e # "" THEN r
           ELSE IF q = NoPath THEN Fail(f, "create_directories: not a directory")
           ELSE Ok(AddNode(r.f, q, DirNode(Now)))

\* std::filesystem::copy_file(from, to, options), from a regular file.
FsCopyFile(f, from, to, overwrite) ==
  LET t == Stat(f, to)
      lt == LStat(f, to)
      q == IF t.kind # "none" \/ lt.kind = "symlink" THEN Place(f, to) ELSE LPlace(f, to)
      n == FileNode(Stat(f, from).data, Now)
  IN  IF Stat(f, from).kind # "file" THEN Fail(f, "copy_file: not a regular file")
      ELSE IF t.kind # "none" /\ t.kind # "file" THEN Fail(f, "copy_file: not a regular file")
      ELSE IF t.kind = "file" /\ Place(f, from) = Place(f, to) THEN Fail(f, "copy_file: file exists")
      ELSE IF lt.kind # "none" /\ ~overwrite THEN Fail(f, "copy_file: file exists")
      ELSE IF q = NoPath THEN Fail(f, "copy_file: no such file or directory")
      ELSE Ok(AddNode(f, q, n))

\* std::filesystem::copy(from, to, options) with options a subset of
\* {overwrite_existing, copy_symlinks}.
FsCopy(f, from, to, overwrite, copySymlinks) ==
  LET s == IF copySymlinks THEN LStat(f, from) ELSE Stat(f, from)
      t == Stat(f, to)
      q == LPlace(f, to)
  IN  IF s.kind = "none" THEN Fail(f, "copy: no such file or directory")
      ELSE IF t.kind # "none" /\ Place(f, from) = Place(f, to) THEN Fail(f, "copy: file exists")
      ELSE IF s.kind = "fifo" \/ t.kind = "fifo" THEN Fail(f, "copy: invalid argument")
      ELSE IF s.kind = "dir" /\ t.kind = "file" THEN Fail(f, "copy: is a directory")
      ELSE IF s.kind = "symlink"
      THEN IF t.kind # "none" \/ LStat(f, to).kind # "none" \/ q = NoPath
           THEN Fail(f, "copy: file exists")
           ELSE Ok(AddNode(f, q, LinkNode(s.target, Now)))
      ELSE IF s.kind = "file"
      THEN IF t.kind = "dir"
           THEN FsCopyFile(f, from, Append(to, Last(from)), overwrite)
           ELSE FsCopyFile(f, from, to, overwrite)
      ELSE IF s.kind = "dir" /\ ~overwrite /\ ~copySymlinks
      THEN IF t.kind = "none" /\ q # NoPath THEN Ok(AddNode(f, q, DirNode(Now))) ELSE Ok(f)
      ELSE Ok(f)

---------------------------------------------------------------------------
(* What a step threads through the code it runs: the filesystem, the       *)
(* trace and the exception now propagating ("" for none).  Code after a    *)
(* throw is skipped.                                                       *)

St(f, tr, e) == [f |-> f, tr |-> tr, e |-> e]

Item(t, what, p, q, x, real) ==
  [t |-> t, what |-> what, p |-> p, q |-> q, x |-> x, real |-> real]

Emit(st, item) == IF st.e # "" THEN st ELSE [st EXCEPT !.tr = Append(@, item)]

\* A line on stdout.
Out(st, what, p, q, x) == Emit(st, Item("out", what, p, q, x, TRUE))

\* A classification event of TreeDiff (a call of one of its callbacks).
Ev(st, what, p, q) == Emit(st, Item("ev", what, p, q, <<>>, TRUE))

\* A filesystem call at p (from q); real is FALSE when dummy mode skips it.
Call(st, what, p, q, real) == Emit(st, Item("op", what, p, q, <<>>, real))

Throw(st, msg) == IF st.e # "" THEN st ELSE [st EXCEPT !.e = msg]

\* Mutant: a failed operation is skipped and the run goes on.
Apply_Skip(st, r) ==
  IF st.e # "" \/ r.e # "" THEN st ELSE [st EXCEPT !.f = r.f]

\* Apply the result r of a std::filesystem operation.
Apply(st, r) ==
  IF st.e # "" THEN st
  ELSE IF r.e # "" THEN [st EXCEPT !.e = r.e]
  ELSE [st EXCEPT !.f = r.f]

---------------------------------------------------------------------------
(* Command line options after main's implications.                         *)

ModeNew(o) == o.new \/ o.update
ModeDelete(o) == o.delete
ModeUpdate(o) == o.update
ModeDiff(o) == o.diff \/ ~(ModeNew(o) \/ ModeDelete(o) \/ ModeUpdate(o))

\* copy_options_base has copy_symlinks unless follow-symlinks is given.
CopySymlinks(o) == ~o.followSymlinks

ignoreSrcFile(n, o) == o.ignoreForksSrc /\ hasForkPrefix(n)
ignoreDstFile(n, o) == o.ignoreForksDst /\ hasForkPrefix(n)

---------------------------------------------------------------------------
(* mkDirs, removeRecursive, copyRecursive, printDirectoryEntry.            *)

\* if (verbose) std::cout << ...
OutIf(c, st, what, p, q, x) == IF c THEN Out(st, what, p, q, x) ELSE st

\* if (!dummyMode) std::filesystem::create_directories(dir);
DoCreate(st, dir, dummyMode) ==
  IF dummyMode \/ st.e # "" THEN st ELSE Apply(st, FsCreateDirectories(st.f, dir))

mkDirs(st, dir, verbose, prefix, dummyMode) ==
  IF st.e # "" THEN st
  ELSE IF ~fsExists(st.f, dir) \/ dummyMode
  THEN DoCreate(Call(OutIf(verbose, st, prefix, dir, NoPath, <<>>),
                     "mkdir", dir, NoPath, ~dummyMode),
                dir, dummyMode)
  ELSE IF ~fsIsDirectory(st.f, dir, FALSE)
  THEN Throw(st, "Cannot create dir on existing non-dir")
  ELSE st

\* Mutant: the removal is not gated by dummy mode.
DoRemove_Always(st, dst, dummyMode) ==
  IF st.e # "" THEN st ELSE Apply(st, FsRemove(st.f, dst))

\* if (!dummyMode) std::filesystem::remove(dst);
DoRemove(st, dst, dummyMode) ==
  IF dummyMode \/ st.e # "" THEN st ELSE Apply(st, FsRemove(st.f, dst))

\* "Remove file or dir": the verbose line and the removal of dst itself.
removeSelf(st, dst, verbose, prefix, followSymlinks, dummyMode) ==
  IF st.e # "" THEN st
  ELSE DoRemove(Call(OutIf(verbose, st, prefix, dst, NoPath,
                           <<getFileTypeStr(st.f, dst, followSymlinks)>>),
                     "remove", dst, NoPath, ~dummyMode),
                dst, dummyMode)

\* Mutant: the contents of a directory are not removed first.
removeRecursive_NoDescent(st, dst, verbose, prefix, followSymlinks, dummyMode) ==
  removeSelf(st, dst, verbose, prefix, followSymlinks, dummyMode)

RECURSIVE removeRecursive(_, _, _, _, _, _)
RECURSIVE removeChildren(_, _, _, _, _, _, _)
removeRecursive(st, dst, verbose, prefix, followSymlinks, dummyMode) ==
  IF st.e # "" THEN st
  ELSE removeSelf(
         IF fsIsDirectory(st.f, dst, FALSE)
         THEN removeChildren(st, dst, ListDir(st.f, dst), verbose, prefix,
                             followSymlinks, dummyMode)
         ELSE st,
         dst, verbose, prefix, followSymlinks, dummyMode)

removeChildren(st, dir, names, verbose, prefix, followSymlinks, dummyMode) ==
  IF names = <<>> THEN st
  ELSE removeChildren(
         removeRecursive(st, Append(dir, Head(names)), verbose, prefix, followSymlinks, dummyMode),
         dir, Tail(names), verbose, prefix, followSymlinks, dummyMode)

\* if (!dummyMode) std::filesystem::copy(src, dst, copy_options);
DoCopy(st, src, dst, overwrite, o, dummyMode) ==
  IF dummyMode \/ st.e # "" THEN st
  ELSE Apply(st, FsCopy(st.f, src, dst, overwrite, CopySymlinks(o)))

\* Mutant: an existing destination is never deleted first.
DeleteFirst_Never(st, src, dst, overwrite, verbose, prefix, o, dummyMode) == st

\* Mutant: only the kind of the existing destination is tested.
DeleteFirst_DstTest(st, src, dst, overwrite, verbose, prefix, o, dummyMode) ==
  IF overwrite /\ fsExists(st.f, dst) /\ ~fsIsRegular(st.f, dst, FALSE)
  THEN removeRecursive(st, dst, verbose, <<prefix, ": Deleting">>, o.followSymlinks, dummyMode)
  ELSE st

\* "overwrite_existing does not replace symlinks or directories etc, so
\* delete the destination first if it exists, unless both are regular files."
DeleteFirst(st, src, dst, overwrite, verbose, prefix, o, dummyMode) ==
  IF /\ overwrite
     /\ fsExists(st.f, dst)
     /\ \/ ~fsIsRegular(st.f, src, o.followSymlinks)
        \/ ~fsIsRegular(st.f, dst, FALSE)
  THEN removeRecursive(st, dst, verbose, <<prefix, ": Deleting">>, o.followSymlinks, dummyMode)
  ELSE st

RECURSIVE copyRecursive(_, _, _, _, _, _, _, _)
RECURSIVE copyChildren(_, _, _, _, _, _, _, _, _)
RECURSIVE copyEntry(_, _, _, _, _, _, _, _)

\* copyRecursive after the deletion of an existing destination.
copyEntry(st, src, dst, overwrite, verbose, prefix, o, dummyMode) ==
  IF st.e # "" THEN st
  ELSE IF is_directory(st.f, src)
  THEN copyChildren(mkDirs(st, dst, verbose, <<prefix, ": Creating dir">>, dummyMode),
                    src, ListDir(st.f, src), dst, overwrite, verbose, prefix, o, dummyMode)
  ELSE DoCopy(Call(OutIf(verbose, st, prefix, src, dst,
                         <<getFileTypeStr(st.f, src, o.followSymlinks)>>),
                   "copy", dst, src, ~dummyMode),
              src, dst, overwrite, o, dummyMode)

\* Mutant: forks of the source are copied like any entry.
copyRecursive_Forks(st, src, dstdir, overwrite, verbose, prefix, o, dummyMode) ==
  IF st.e # "" THEN st
  ELSE copyEntry(
         DeleteFirst(st, src, Append(dstdir, Last(src)), overwrite, verbose, prefix, o,
                     dummyMode),
         src, Append(dstdir, Last(src)), overwrite, verbose, prefix, o, dummyMode)

copyRecursive(st, src, dstdir, overwrite, verbose, prefix, o, dummyMode) ==
  IF st.e # "" THEN st
  ELSE IF ignoreSrcFile(Last(src), o) THEN st
  ELSE copyEntry(
         DeleteFirst(st, src, Append(dstdir, Last(src)), overwrite, verbose, prefix, o,
                     dummyMode),
         src, Append(dstdir, Last(src)), overwrite, verbose, prefix, o, dummyMode)

copyChildren(st, src, names, dst, overwrite, verbose, prefix, o, dummyMode) ==
  IF names = <<>> THEN st
  ELSE copyChildren(
         copyRecursive(st, Append(src, Head(names)), dst, overwrite, verbose, prefix, o, dummyMode),
         src, Tail(names), dst, overwrite, verbose, prefix, o, dummyMode)

RECURSIVE printDirectoryEntry(_, _, _, _, _, _)
RECURSIVE printChildren(_, _, _, _, _, _, _)
\* Mutant: the source filter applied to the entries of both sides.
printDirectoryEntry_SrcFilter(st, entry, prefix, o, recursive, src) ==
  IF st.e # "" THEN st
  ELSE IF ignoreSrcFile(Last(entry), o) THEN st
  ELSE IF ~recursive \/ ~is_directory(st.f, entry)
  THEN Out(st, prefix, entry, NoPath, <<getFileTypeStr(st.f, entry, o.followSymlinks)>>)
  ELSE printChildren(
         Out(st, prefix, entry, NoPath, <<getFileTypeStr(st.f, entry, o.followSymlinks)>>),
         entry, ListDir(st.f, entry), prefix, o, recursive, src)

printDirectoryEntry(st, entry, prefix, o, recursive, src) ==
  IF st.e # "" THEN st
  ELSE IF (IF src THEN ignoreSrcFile(Last(entry), o) ELSE ignoreDstFile(Last(entry), o)) THEN st
  ELSE IF ~recursive \/ ~is_directory(st.f, entry)
  THEN Out(st, prefix, entry, NoPath, <<getFileTypeStr(st.f, entry, o.followSymlinks)>>)
  ELSE printChildren(
         Out(st, prefix, entry, NoPath, <<getFileTypeStr(st.f, entry, o.followSymlinks)>>),
         entry, ListDir(st.f, entry), prefix, o, recursive, src)

printChildren(st, dir, names, prefix, o, recursive, src) ==
  IF names = <<>> THEN st
  ELSE printChildren(printDirectoryEntry(st, Append(dir, Head(names)), prefix, o, recursive, src),
                     dir, Tail(names), prefix, o, recursive, src)

---------------------------------------------------------------------------
(* The callbacks main() installs in TreeDiff::Params.                      *)

\* bool preserve = false; // cl("preserve"); // todo
preserve == FALSE

Verbose(o) == o.verbose > 0

\* The diff part of the srcOnly lambda: the "+" lines and --copy-ins.
srcOnlyDiff(st, src, o) ==
  IF ~ModeDiff(o) THEN st
  ELSE IF o.copyIns = NoPath
  THEN printDirectoryEntry(st, src, "+", o, o.showSubtree, TRUE)
  ELSE copyRecursive(
         mkDirs(printDirectoryEntry(st, src, "+", o, o.showSubtree, TRUE),
                o.copyIns, Verbose(o), "Creating --copy-ins destination dir", o.dummyMode),
         src, o.copyIns, TRUE, Verbose(o), "Copying (--copy-ins)", o, o.dummyMode)

\* Mutant: the copy into DSTDIR is not gated by --new.
srcOnlyNew_Always(st, src, dstdir, o) ==
  copyRecursive(st, src, dstdir, FALSE, Verbose(o), "Copying (new)", o, o.dummyMode)

srcOnlyNew(st, src, dstdir, o) ==
  IF ModeNew(o)
  THEN copyRecursive(st, src, dstdir, FALSE, Verbose(o), "Copying (new)", o, o.dummyMode)
  ELSE st

srcOnlyCb(st, src, dstdir, o) ==
  srcOnlyNew(srcOnlyDiff(Ev(st, "SrcOnly", src, dstdir), src, o), src, dstdir, o)

\* The diff part of the dstOnly lambda: the "-" lines and --copy-del.
dstOnlyDiff(st, dst, o) ==
  IF ~ModeDiff(o) THEN st
  ELSE IF o.copyDel = NoPath
  THEN printDirectoryEntry(st, dst, "-", o, o.showSubtree, FALSE)
  ELSE copyRecursive(
         mkDirs(printDirectoryEntry(st, dst, "-", o, o.showSubtree, FALSE),
                o.copyDel, Verbose(o), "Creating --copy-del destination dir", o.dummyMode),
         dst, o.copyDel, TRUE, Verbose(o), "Copying (--copy-del)", o, o.dummyMode)

\* Mutant: the removal happens only when diff is enabled too.
dstOnlyDelete_WithDiff(st, dst, o) ==
  IF ModeDelete(o) /\ ModeDiff(o)
  THEN removeRecursive(st, dst, Verbose(o), "Deleting", o.followSymlinks, o.dummyMode)
  ELSE st

dstOnlyDelete(st, dst, o) ==
  IF ModeDelete(o)
  THEN removeRecursive(st, dst, Verbose(o), "Deleting", o.followSymlinks, o.dummyMode)
  ELSE st

dstOnlyCb(st, srcdir, dst, o) ==
  dstOnlyDelete(dstOnlyDiff(Ev(st, "DstOnly", srcdir, dst), dst, o), dst, o)

\* std::filesystem::last_write_time(p, t) on the entry or on what it links to.
setLastWriteTime(f, p, t, follow) ==
  LET q == IF follow THEN Place(f, p) ELSE LPlace(f, p)
  IN  IF q # NoPath /\ q \in DOMAIN f THEN Ok([f EXCEPT ![q].mtime = t])
      ELSE Fail(f, "last_write_time: no such file or directory")

\* Mutant: "not older" instead of "strictly newer".
SrcNewer_OrEqual(f, src, dst, o) ==
  getLastWriteTime(f, src, o.followSymlinks) >= getLastWriteTime(f, dst, o.followSymlinks)

SrcNewer(f, src, dst, o) ==
  getLastWriteTime(f, src, o.followSymlinks) > getLastWriteTime(f, dst, o.followSymlinks)

TypeStrs(f, src, dst, o) ==
  <<getFileTypeStr(f, src, o.followSymlinks), getFileTypeStr(f, dst, o.followSymlinks)>>

\* if (!dummyMode) ut1::setLastWriteTime(dst, ut1::getLastWriteTime(src, ..), ..);
DoSetMtime(st, src, dst, o) ==
  IF o.dummyMode \/ st.e # "" THEN st
  ELSE Apply(st, setLastWriteTime(st.f, dst, getLastWriteTime(st.f, src, o.followSymlinks),
                                  o.followSymlinks))

\* The update part of the match lambda.
matchUpdate(st, src, dst, o) ==
  IF st.e # "" THEN st
  ELSE IF ModeUpdate(o) /\ ~o.ignoreMtime /\ SrcNewer(st.f, src, dst, o)
          /\ ~o.dummyMode /\ preserve
  THEN DoSetMtime(Call(OutIf(Verbose(o), st, "Updating mtime", src, dst,
                             <<getFileTypeStr(st.f, src, o.followSymlinks)>>),
                       "mtime", dst, src, ~o.dummyMode),
                  src, dst, o)
  ELSE st

matchCb(st, src, dst, o) ==
  matchUpdate(OutIf(ModeDiff(o) /\ o.showMatches, Ev(st, "Match", src, dst),
                    "=", src, dst, TypeStrs(st.f, src, dst, o)),
              src, dst, o)

\* The detail the "Diff:" line gives: link targets, or the sizes.
MismatchInfo(f, src, dst, o) ==
  IF getFileType(f, src, o.followSymlinks) = "symlink"
  THEN <<"->", read_symlink(f, src), read_symlink(f, dst)>>
  ELSE IF file_size(f, src) # file_size(f, dst)
  THEN <<"size", file_size(f, src), file_size(f, dst)>>
  ELSE <<"same size, different content">>

\* Mutant: source and destination swapped in the call of copyRecursive.
mismatchUpdate_Swapped(st, src, dst, o) ==
  IF st.e # "" THEN st
  ELSE IF ModeUpdate(o) /\ (o.ignoreMtime \/ SrcNewer(st.f, src, dst, o))
  THEN copyRecursive(st, dst, Front(src), TRUE, Verbose(o), "Copying (update)", o,
                     o.dummyMode)
  ELSE st

\* The update part of the mismatch lambda.
mismatchUpdate(st, src, dst, o) ==
  IF st.e # "" THEN st
  ELSE IF ModeUpdate(o) /\ (o.ignoreMtime \/ SrcNewer(st.f, src, dst, o))
  THEN copyRecursive(st, src, Front(dst), TRUE, Verbose(o), "Copying (update)", o,
                     o.dummyMode)
  ELSE st

mismatchCb(st, src, dst, o) ==
  mismatchUpdate(OutIf(ModeDiff(o), Ev(st, "Mismatch", src, dst), "Diff:", src, dst,
                       TypeStrs(st.f, src, dst, o) \o MismatchInfo(st.f, src, dst, o)),
                 src, dst, o)

\* Mutant: the mtime guard of the mismatch lambda applied to type mismatches.
typeMismatchUpdate_Guarded(st, src, dst, o) ==
  IF ModeUpdate(o) /\ (o.ignoreMtime \/ SrcNewer(st.f, src, dst, o))
  THEN copyRecursive(st, src, Front(dst), TRUE, Verbose(o), "Copying (type mismatch)", o,
                     o.dummyMode)
  ELSE st

\* The update part of the typeMismatch lambda.
typeMismatchUpdate(st, src, dst, o) ==
  IF ModeUpdate(o)
  THEN copyRecursive(st, src, Front(dst), TRUE, Verbose(o), "Copying (type mismatch)", o,
                     o.dummyMode)
  ELSE st

typeMismatchCb(st, src, dst, o) ==
  typeMismatchUpdate(OutIf(ModeDiff(o), Ev(st, "TypeMismatch", src, dst), "Type mismatch:",
                           src, dst, TypeStrs(st.f, src, dst, o)),
                     src, dst, o)

progressDirsCb(st, src, dst, o) ==
  IF o.verbose >= 2 THEN Out(st, "Processing dirs", src, dst, <<>>) ELSE st

progressFilesCb(st, src, dst, o) ==
  IF o.verbose >= 3
  THEN Out(st, "Processing", src, dst, <<getFileTypeStr(st.f, src, o.followSymlinks),
                                         getFileTypeStr(st.f, dst, o.followSymlinks)>>)
  ELSE st

ignoredDirCb(st, entry, o) ==
  OutIf(ModeDiff(o) \/ Verbose(o), Ev(st, "IgnoredDir", entry, NoPath),
        "Ignoring dir", entry, NoPath, <<>>)

ignoredFileCb(st, entry, o) ==
  OutIf(ModeDiff(o) \/ Verbose(o), Ev(st, "IgnoredFile", entry, NoPath),
        "Ignoring", entry, NoPath, <<getFileTypeStr(st.f, entry, o.followSymlinks)>>)

---------------------------------------------------------------------------
(* TreeDiff::processDir.                                                   *)

\* Mutant: the filename is the key, normalized or not.
Key_Raw(n, o) == n

Key(n, o) == IF o.normalizeFilenames THEN toNfd(n) ELSE n

\* The std::map built from one directory: the entries in ascending key
\* order; of two filenames with one key the one listed later stays.
RECURSIVE MapEntries(_, _, _, _, _)
\* Mutant: of two filenames with one key the one listed first stays.
MapEntries_First(keys, ls, kept, dir, o) ==
  IF keys = <<>> THEN <<>>
  ELSE LET k == Head(keys)
           i == CHOOSE i \in kept :
                  /\ Key(ls[i], o) = k
                  /\ \A j \in kept : Key(ls[j], o) = k => j >= i
       IN  <<[key |-> k, path |-> Append(dir, ls[i])]>>
           \o MapEntries(Tail(keys), ls, kept, dir, o)

MapEntries(keys, ls, kept, dir, o) ==
  IF keys = <<>> THEN <<>>
  ELSE LET k == Head(keys)
           i == CHOOSE i \in kept :
                  /\ Key(ls[i], o) = k
                  /\ \A j \in kept : Key(ls[j], o) = k => j <= i
       IN  <<[key |-> k, path |-> Append(dir, ls[i])]>>
           \o MapEntries(Tail(keys), ls, kept, dir, o)

BuildMap(f, dir, o, isSrc) ==
  LET ls == ListDir(f, dir)
      kept == {i \in 1..Len(ls) :
                 ~(IF isSrc THEN ignoreSrcFile(ls[i], o) ELSE ignoreDstFile(ls[i], o))}
  IN  MapEntries(SortNames({Key(ls[i], o) : i \in kept}), ls, kept, dir, o)

\* Entry of processDir(src, dst): progress line and the two maps.
EnterDir(st, src, dst, o) ==
  LET s1 == progressDirsCb(st, src, dst, o)
      bad == \/ ~is_directory(s1.f, src)
             \/ fsExists(s1.f, dst) /\ ~is_directory(s1.f, dst)
  IN  [st |-> IF bad THEN Throw(s1, "directory_iterator: not a directory") ELSE s1,
       frame |-> [src |-> src, dst |-> dst,
                  srcmap |-> IF bad THEN <<>> ELSE BuildMap(s1.f, src, o, TRUE),
                  dstmap |-> IF bad \/ ~fsExists(s1.f, dst) THEN <<>>
                             ELSE BuildMap(s1.f, dst, o, FALSE),
                  noDifferenceFound |-> TRUE]]

---------------------------------------------------------------------------
(* The steps of a run.                                                     *)

Top == stack[Len(stack)]
SetTop(fr) == [stack EXCEPT ![Len(stack)] = fr]

SrcEnd(fr) == Len(fr.srcmap) = 0
DstEnd(fr) == Len(fr.dstmap) = 0
ItSrc(fr) == Head(fr.srcmap)
ItDst(fr) == Head(fr.dstmap)

\* The end of a step: the state the code left, and the stack if nothing was
\* thrown.  An exception unwinds to main's catch, which reports it and exits.
Finish(st, stk) ==
  /\ fs' = st.f
  /\ err' = st.e
  /\ trace' = IF st.e # "" THEN Append(st.tr, Item("err", st.e, NoPath, NoPath, <<>>, TRUE))
              ELSE st.tr
  /\ pc' = IF st.e # "" THEN "error" ELSE "loop"
  /\ stack' = IF st.e # "" THEN <<>> ELSE stk
  /\ UNCHANGED <<fs0, opts, ret, runs>>

\* Mutant: DSTDIR is not checked.
Preconditions_SrcOnly(st, o) ==
  IF ~fsExists(st.f, SRCDIR) THEN Throw(st, "SRCDIR does not exist!")
  ELSE IF ~fsIsDirectory(st.f, SRCDIR, o.followSymlinks)
  THEN Throw(st, "SRCDIR is not a directory!")
  ELSE st

\* main(): create-missing-dst, the checks of SRCDIR and DSTDIR, process().
Preconditions(st, o) ==
  LET checkDst == ~(o.createMissingDst /\ o.dummyMode)
  IN  IF ~fsExists(st.f, SRCDIR) THEN Throw(st, "SRCDIR does not exist!")
      ELSE IF ~fsIsDirectory(st.f, SRCDIR, o.followSymlinks)
      THEN Throw(st, "SRCDIR is not a directory!")
      ELSE IF ~fsExists(st.f, DSTDIR) /\ checkDst THEN Throw(st, "DSTDIR does not exist!")
      ELSE IF ~fsIsDirectory(st.f, DSTDIR, o.followSymlinks) /\ checkDst
      THEN Throw(st, "DSTDIR is not a directory!")
      ELSE st

Main ==
  /\ pc = "main"
  /\ LET st0 == St(fs, trace, "")
         s1 == IF ModeNew(opts) /\ ~fsExists(fs, DSTDIR) /\ opts.createMissingDst
               THEN mkDirs(st0, DSTDIR, Verbose(opts), "Creating destination dir",
                           opts.dummyMode)
               ELSE st0
         s2 == Preconditions(s1, opts)
         ent == EnterDir(s2, SRCDIR, DSTDIR, opts)
     IN  Finish(ent.st, <<ent.frame>>)

\* if ((itsrc != end) && ((itdst == end) || (itsrc->first < itdst->first)))
IsSrcOnly(fr) ==
  IF SrcEnd(fr) THEN FALSE
  ELSE IF DstEnd(fr) THEN TRUE
  ELSE NameLess(ItSrc(fr).key, ItDst(fr).key)

\* else if ((itdst != end) && ((itsrc == end) || (itsrc->first > itdst->first)))
IsDstOnly(fr) ==
  IF IsSrcOnly(fr) \/ DstEnd(fr) THEN FALSE
  ELSE IF SrcEnd(fr) THEN TRUE
  ELSE NameLess(ItDst(fr).key, ItSrc(fr).key)

\* Merge loop, key in src only.
SrcOnlyStep ==
  /\ pc = "loop"
  /\ IsSrcOnly(Top)
  /\ LET st == srcOnlyCb(St(fs, trace, ""), ItSrc(Top).path, Top.dst, opts)
     IN  Finish(st, SetTop([Top EXCEPT !.noDifferenceFound = FALSE,
                                       !.srcmap = Tail(@)]))

\* Merge loop, key in dst only.
DstOnlyStep ==
  /\ pc = "loop"
  /\ IsDstOnly(Top)
  /\ LET st == dstOnlyCb(St(fs, trace, ""), Top.src, ItDst(Top).path, opts)
     IN  Finish(st, SetTop([Top EXCEPT !.noDifferenceFound = FALSE,
                                       !.dstmap = Tail(@)]))

\* Both iterators stand on the same key.
Paired ==
  /\ pc = "loop"
  /\ ~SrcEnd(Top)
  /\ ~DstEnd(Top)
  /\ ~IsSrcOnly(Top)
  /\ ~IsDstOnly(Top)

SrcType == getFileType(fs, ItSrc(Top).path, opts.followSymlinks)
DstType == getFileType(fs, ItDst(Top).path, opts.followSymlinks)

\* Mutant: the verdict of the last pair replaces the verdict so far.
Advance_Last(ndf) ==
  SetTop([Top EXCEPT !.noDifferenceFound = ndf,
                     !.srcmap = Tail(@), !.dstmap = Tail(@)])

Advance(ndf) ==
  SetTop([Top EXCEPT !.noDifferenceFound = @ /\ ndf,
                     !.srcmap = Tail(@), !.dstmap = Tail(@)])

\* Same key, different file types.
TypeMismatchStep ==
  /\ Paired
  /\ SrcType # DstType
  /\ LET st == typeMismatchCb(St(fs, trace, ""), ItSrc(Top).path, ItDst(Top).path, opts)
     IN  Finish(st, Advance(FALSE))

\* Mutant: the size comparison is dropped.
RegularEqual_NoSize(f, src, dst, o) ==
  o.ignoreContent \/ readFile(f, src) = readFile(f, dst)

\* case FT_REGULAR
RegularEqual(f, src, dst, o) ==
  /\ file_size(f, src) = file_size(f, dst)
  /\ o.ignoreContent \/ readFile(f, src) = readFile(f, dst)

\* Mutant: the contents are read before the sizes are compared.
readContents_Always(st, src, dst, o) ==
  Emit(Emit(st, Item("rd", "readFile", src, dst, <<>>, TRUE)),
       Item("rd", "readFile", dst, src, <<>>, TRUE))

\* The two calls of ut1::readFile in the condition of case FT_REGULAR: made
\* only if the sizes are equal and ignoreContent is unset.
readContents(st, src, dst, o) ==
  IF file_size(st.f, src) = file_size(st.f, dst) /\ ~o.ignoreContent
  THEN Emit(Emit(st, Item("rd", "readFile", src, dst, <<>>, TRUE)),
            Item("rd", "readFile", dst, src, <<>>, TRUE))
  ELSE st

RegularStep ==
  /\ Paired
  /\ SrcType = DstType
  /\ SrcType = "file"
  /\ LET src == ItSrc(Top).path
         dst == ItDst(Top).path
         s1 == readContents(progressFilesCb(St(fs, trace, ""), src, dst, opts),
                            src, dst, opts)
         eq == RegularEqual(fs, src, dst, opts)
         st == IF eq THEN matchCb(s1, src, dst, opts) ELSE mismatchCb(s1, src, dst, opts)
     IN  Finish(st, Advance(eq))

\* Mutant: ignoreDirs is not tested.
DirStep_Recurse ==
  /\ Paired
  /\ SrcType = DstType
  /\ SrcType = "dir"
  /\ LET ent == EnterDir(St(fs, trace, ""), ItSrc(Top).path, ItDst(Top).path, opts)
     IN  Finish(ent.st, Append(stack, ent.frame))

\* case FT_DIR: the recursive call of processDir, or ignoredDir twice.
DirStep ==
  /\ Paired
  /\ SrcType = DstType
  /\ SrcType = "dir"
  /\ LET src == ItSrc(Top).path
         dst == ItDst(Top).path
         st0 == St(fs, trace, "")
     IN  IF ~opts.ignoreDirs
         THEN LET ent == EnterDir(st0, src, dst, opts)
              IN  Finish(ent.st, Append(stack, ent.frame))
         ELSE Finish(ignoredDirCb(ignoredDirCb(st0, src, opts), dst, opts), Advance(TRUE))

\* case FT_SYMLINK, FT_FIFO/FT_SOCKET, FT_BLOCK/FT_CHAR, FT_NON_EXISTING
RDevEqual(f, src, dst) == Stat(f, src).data = Stat(f, dst).data

OtherStep ==
  /\ Paired
  /\ SrcType = DstType
  /\ SrcType \notin {"file", "dir"}
  /\ LET src == ItSrc(Top).path
         dst == ItDst(Top).path
         type == SrcType
         s1 == progressFilesCb(St(fs, trace, ""), src, dst, opts)
         ignored == ignoredFileCb(ignoredFileCb(s1, src, opts), dst, opts)
         eq == CASE type = "symlink" -> read_symlink(fs, src) = read_symlink(fs, dst)
                 [] type \in {"fifo", "socket"} -> TRUE
                 [] type \in {"block", "char"} -> opts.ignoreSpecial \/ RDevEqual(fs, src, dst)
                 [] OTHER -> TRUE
         st == CASE type = "symlink" ->
                      IF eq THEN matchCb(s1, src, dst, opts) ELSE mismatchCb(s1, src, dst, opts)
                 [] type \in {"fifo", "socket"} ->
                      IF ~opts.ignoreSpecial THEN matchCb(s1, src, dst, opts) ELSE ignored
                 [] type \in {"block", "char"} ->
                      IF opts.ignoreSpecial THEN ignored
                      ELSE IF eq THEN matchCb(s1, src, dst, opts)
                      ELSE mismatchCb(s1, src, dst, opts)
                 [] OTHER -> ignored
     IN  Finish(st, Advance(eq))

\* Mutant: at the end of a directory the run starts over.
ReturnStep_Again ==
  /\ pc = "loop"
  /\ SrcEnd(Top)
  /\ DstEnd(Top)
  /\ pc' = "main"
  /\ stack' = <<>>
  /\ trace' = <<>>
  /\ UNCHANGED <<fs, fs0, opts, err, ret, runs>>

\* Both iterators at the end: processDir returns noDifferenceFound.
ReturnStep ==
  /\ pc = "loop"
  /\ SrcEnd(Top)
  /\ DstEnd(Top)
  /\ LET r == Top.noDifferenceFound
         tr == Append(trace, Item("ret", "processDir", Top.src, Top.dst, <<r>>, TRUE))
     IN  /\ trace' = tr
         /\ IF Len(stack) = 1
            THEN /\ pc' = "done"
                 /\ ret' = r
                 /\ stack' = <<>>
            ELSE LET up == stack[Len(stack) - 1]
                 IN  /\ pc' = "loop"
                     /\ ret' = ret
                     /\ stack' = [SubSeq(stack, 1, Len(stack) - 1) EXCEPT ![Len(stack) - 1] =
                                    [up EXCEPT !.noDifferenceFound = @ /\ r,
                                               !.srcmap = Tail(@), !.dstmap = Tail(@)]]
  /\ UNCHANGED <<fs, fs0, opts, err, runs>>

Next ==
  \/ Main
  \/ SrcOnlyStep
  \/ DstOnlyStep
  \/ TypeMismatchStep
  \/ RegularStep
  \/ DirStep
  \/ OtherStep
  \/ ReturnStep

---------------------------------------------------------------------------
(* Initial trees and options.                                              *)

\* No option given.
Defaults ==
  [new |-> FALSE, delete |-> FALSE, update |-> FALSE, diff |-> FALSE,
   dummyMode |-> FALSE, ignoreMtime |-> FALSE, ignoreContent |-> FALSE,
   followSymlinks |-> FALSE, ignoreDirs |-> FALSE, ignoreSpecial |-> FALSE,
   ignoreForksSrc |-> FALSE, ignoreForksDst |-> FALSE, normalizeFilenames |-> FALSE,
   showMatches |-> FALSE, showSubtree |-> FALSE, createMissingDst |-> FALSE,
   verbose |-> 0, copyIns |-> NoPath, copyDel |-> NoPath]

\* A tree is a function from relative paths to nodes.
Empty == [p \in {} |-> NoNode]
One(n, node) == [p \in {<<n>>} |-> node]
Under(n, t) == [p \in {<<n>> \o r : r \in DOMAIN t} |-> t[Tail(p)]]
Dir(n, m, t) == One(n, DirNode(m)) @@ Under(n, t)
Mount(root, t) == [p \in {root \o r : r \in DOMAIN t} |-> t[SubSeq(p, Len(root) + 1, Len(p))]]
Root(root, t) == [p \in {root} |-> DirNode(1)] @@ Mount(root, t)

Contents == {<<1>>, <<2>>, <<1, 1>>}
Mtimes == 1..MaxMtime

Files == {FileNode(d, m) : d \in Contents, m \in Mtimes}

\* What a directory below the root holds.
Subtrees ==
  {Empty, One("a", FileNode(<<1>>, 1)), One("b", FileNode(<<2>>, 1)),
   Dir("a", 1, One("a", FileNode(<<1>>, 1))) @@ One("b", FileNode(<<1>>, 1))}

\* The entry "a" of a root directory, rooted at `root`.
EntriesA(root) ==
  {Empty}
  \cup {One("a", n) : n \in Files}
  \cup {Dir("a", 1, t) : t \in Subtrees}
  \cup {One("a", LinkNode(root \o <<"b">>, 1)), One("a", LinkNode(root \o <<"c">>, 1))}
  \cup {One("a", FifoNode(1))}

\* The entry "b" of a root directory.
EntriesB == {Empty, One("b", FileNode(<<1>>, 1))}

Trees(root) == {Root(root, a @@ b) : a \in EntriesA(root), b \in EntriesB}

TreePairs == {s @@ d : s \in Trees(SRCDIR), d \in Trees(DSTDIR)}

Modes ==
  {[Defaults EXCEPT !.new = n, !.delete = d, !.update = u, !.diff = f] :
     n \in BOOLEAN, d \in BOOLEAN, u \in BOOLEAN, f \in BOOLEAN}

InitOf(trees, options) ==
  /\ fs \in trees
  /\ fs0 = fs
  /\ opts \in options
  /\ pc = "main"
  /\ stack = <<>>
  /\ trace = <<>>
  /\ err = ""
  /\ ret = TRUE
  /\ runs = <<>>

MainOptions ==
  {[m EXCEPT !.ignoreMtime = t, !.ignoreContent = c] :
     m \in Modes, t \in BOOLEAN, c \in BOOLEAN}

Init == InitOf(TreePairs, MainOptions)

Spec == Init /\ [][Next]_vars

---------------------------------------------------------------------------
(* Runs under every combination of the modes with dummy-mode,              *)
(* create-missing-dst and the export directories of --copy-ins/--copy-del. *)

FrameA(root) ==
  {Empty,
   One("a", FileNode(<<1>>, 1)),
   One("a", FileNode(<<2>>, MaxMtime)),
   Dir("a", 1, Dir("a", 1, One("a", FileNode(<<1>>, 1))) @@ One("b", FileNode(<<1>>, 1))),
   Dir("a", 1, One("b", FileNode(<<2>>, 1))),
   One("a", LinkNode(root \o <<"b">>, 1)),
   One("a", FifoNode(1))}

FrameSide(root) == {Root(root, a @@ b) : a \in FrameA(root), b \in EntriesB}

\* DSTDIR may be missing.
FramePairs ==
  {s @@ d : s \in FrameSide(SRCDIR), d \in FrameSide(DSTDIR) \cup {Empty}}

\* The export directories as an earlier run may have left them.
Exports ==
  Root(INSDIR, Dir("a", 1, One("b", FileNode(<<1>>, 1))))
  @@ Root(DELDIR, One("a", FileNode(<<1>>, 1)))

FrameModes ==
  {[m EXCEPT !.dummyMode = d, !.createMissingDst = c] :
     m \in Modes, d \in BOOLEAN, c \in BOOLEAN}

WithExports(os) == {[o EXCEPT !.copyIns = INSDIR, !.copyDel = DELDIR] : o \in os}

\* SRCDIR and DSTDIR missing, a regular file, or a directory.
RootCases ==
  {s @@ d :
     s \in {Empty, [p \in {SRCDIR} |-> FileNode(<<1>>, 1)],
            Root(SRCDIR, One("a", FileNode(<<1>>, 1)))},
     d \in {Empty, [p \in {DSTDIR} |-> FileNode(<<1>>, 1)],
            Root(DSTDIR, Empty), Root(DSTDIR, One("a", FileNode(<<2>>, 1)))}}

InitFrame ==
  \/ InitOf(RootCases, FrameModes)
  \/ InitOf(FramePairs, FrameModes)
  \/ InitOf(FramePairs, WithExports(FrameModes))
  \/ InitOf({t @@ Exports : t \in FramePairs}, WithExports(FrameModes))

SpecFrame == InitFrame /\ [][Next]_vars

---------------------------------------------------------------------------
(* A dummy run followed by the real run on the same trees.                 *)

\* The lines a run wrote to stdout.
OutLines(tr) == SelectSeq(tr, LAMBDA i : i.t = "out")

\* The run made a filesystem call that was not skipped.
Acted(tr) == \E j \in 1..Len(tr) : tr[j].t = "op" /\ tr[j].real

RunRecord == [opts |-> opts, log |-> OutLines(trace), acted |-> Acted(trace), err |-> err]

Start(o, f) ==
  /\ opts' = o
  /\ fs' = f
  /\ fs0' = f
  /\ pc' = "main"
  /\ stack' = <<>>
  /\ trace' = <<>>
  /\ err' = ""
  /\ ret' = TRUE
  /\ runs' = Append(runs, RunRecord)

\* After the dummy run: the same command line without --dummy-mode, on the
\* trees the dummy run started from.
RunReal ==
  /\ pc \in {"done", "error"}
  /\ opts.dummyMode
  /\ runs = <<>>
  /\ Start([opts EXCEPT !.dummyMode = FALSE], fs0)

PairOptions == {[o EXCEPT !.dummyMode = TRUE, !.verbose = 1] : o \in FrameModes}

InitPair ==
  \/ InitOf(FramePairs, PairOptions)
  \/ InitOf(FramePairs, WithExports(PairOptions))
  \/ InitOf({t @@ Exports : t \in FramePairs}, WithExports(PairOptions))

NextPair == Next \/ RunReal

SpecPair == InitPair /\ [][NextPair]_vars

---------------------------------------------------------------------------
(* Runs with new, delete and update repeated until one does nothing, then  *)
(* a diff run with the same matching options.                              *)

DiffOnly(o) == ~ModeNew(o) /\ ~ModeDelete(o) /\ ~ModeUpdate(o)

\* The next invocation on the trees as the finished run left them.
RunAgain ==
  /\ pc = "done"
  /\ ~DiffOnly(opts)
  /\ Len(runs) < MaxRuns - 1
  /\ Start(IF Acted(trace) THEN opts
           ELSE [opts EXCEPT !.new = FALSE, !.delete = FALSE, !.update = FALSE,
                             !.diff = TRUE],
           fs)

SyncOptions ==
  {[Defaults EXCEPT !.new = TRUE, !.delete = TRUE, !.update = TRUE, !.diff = f,
                    !.ignoreMtime = t, !.ignoreContent = c] :
     f \in BOOLEAN, t \in BOOLEAN, c \in BOOLEAN}

\* A source whose entry "a" is a symbolic link to its directory "b".
LinkedSrc ==
  Root(SRCDIR, One("a", LinkNode(SRCDIR \o <<"b">>, 1))
               @@ Dir("b", 1, One("a", FileNode(<<1>>, 1))))

SyncPairs == TreePairs \cup {LinkedSrc @@ d : d \in Trees(DSTDIR)}

InitSync == InitOf(SyncPairs, SyncOptions)

NextSync == Next \/ RunAgain

SpecSync == InitSync /\ [][NextSync]_vars

---------------------------------------------------------------------------
(* Diff runs over directories with fork names and decomposable names.      *)

DiffA(root) ==
  {Empty,
   One("a", FileNode(<<1>>, 1)),
   One("a", FileNode(<<2>>, 1)),
   Dir("a", 1, One("a", FileNode(<<1>>, 1))),
   Dir("a", 1, One("b", FileNode(<<1>>, 1)) @@ One("._a", FileNode(<<1>>, 1))),
   One("a", LinkNode(root \o <<"b">>, 1)),
   One("a", FifoNode(1))}

DiffFork == {Empty, One("._a", FileNode(<<1>>, 1))}

DiffE == {Empty, One("e_nfc", FileNode(<<1>>, 1)), One("e_nfd", FileNode(<<1>>, 1))}

DiffSide(root) ==
  {Root(root, a @@ k @@ e) : a \in DiffA(root), k \in DiffFork, e \in DiffE}

DiffPairs == {s @@ d : s \in DiffSide(SRCDIR), d \in DiffSide(DSTDIR)}

DiffOptions ==
  {[Defaults EXCEPT !.diff = TRUE, !.showSubtree = t, !.ignoreForksSrc = k,
                    !.ignoreForksDst = l, !.normalizeFilenames = n] :
     t \in BOOLEAN, k \in BOOLEAN, l \in BOOLEAN, n \in BOOLEAN}

InitDiff == InitOf(DiffPairs, DiffOptions)

SpecDiff == InitDiff /\ [][Next]_vars

---------------------------------------------------------------------------
(* Diff runs with ignore-dirs and ignore-special.                          *)

VerdictOptions ==
  {[Defaults EXCEPT !.diff = TRUE, !.ignoreDirs = d, !.ignoreSpecial = x,
                    !.ignoreForksSrc = k, !.normalizeFilenames = n] :
     d \in BOOLEAN, x \in BOOLEAN, k \in BOOLEAN, n \in BOOLEAN}

InitVerdict == InitOf(DiffPairs, VerdictOptions)

SpecVerdict == InitVerdict /\ [][Next]_vars

---------------------------------------------------------------------------
(* Runs that delete, silent and verbose, with and without update and      *)
(* ignore-dirs.                                                            *)

InitDelete ==
  InitOf(TreePairs,
         {[Defaults EXCEPT !.delete = TRUE, !.update = u, !.diff = f, !.verbose = v,
                           !.followSymlinks = l, !.ignoreDirs = g] :
            u \in BOOLEAN, f \in BOOLEAN, v \in 0..1, l \in BOOLEAN, g \in BOOLEAN})

SpecDelete == InitDelete /\ [][Next]_vars

---------------------------------------------------------------------------
(* Runs over directories that hold two spellings of one name, listed in    *)
(* either order, and runs over trees with symbolic links to directories and *)
(* to their own ancestors.                                                 *)

InitCorner ==
  LET spelling(n) == {Empty, One(n, FileNode(<<1>>, 1)), One(n, FileNode(<<2>>, 1))}
      twice(root) ==
        {[Root(root, c @@ d) EXCEPT ![root].data = o] :
           c \in spelling("e_nfc"), d \in spelling("e_nfd"), o \in {<<>>, <<1>>}}
      linked(root) ==
        {Root(root, a) :
           a \in {Empty,
                  One("a", LinkNode(root, 1)),
                  Dir("a", 1, One("a", LinkNode(root \o <<"a">>, 1))),
                  Dir("a", 1, One("a", FileNode(<<1>>, 1))),
                  Dir("b", 1, One("a", FileNode(<<1>>, 1))),
                  One("a", LinkNode(SRCDIR, 1)),
                  One("a", LinkNode(root \o <<"b">>, 1))
                    @@ Dir("b", 1, One("a", FileNode(<<1>>, 1)))}}
  IN  \/ InitOf({x @@ y : x \in twice(SRCDIR), y \in twice(DSTDIR)},
                {[m EXCEPT !.normalizeFilenames = n, !.ignoreMtime = t] :
                   m \in Modes, n \in BOOLEAN, t \in BOOLEAN})
      \/ InitOf({x @@ y : x \in linked(SRCDIR), y \in linked(DSTDIR)},
                {[m EXCEPT !.followSymlinks = l, !.showSubtree = t] :
                   m \in Modes, l \in BOOLEAN, t \in BOOLEAN})

SpecCorner == InitCorner /\ [][Next]_vars

\* The program is one thread that runs until main returns: a step that is
\* possible is taken.  This is WF_vars(Next), with ENABLED <<Next>>_vars
\* written out: a step is possible exactly in main and in the merge loop.
SpecCornerFair ==
  /\ InitCorner
  /\ [][Next]_vars
  /\ \/ []<>(pc \notin {"main", "loop"})
     \/ []<><<Next>>_vars

---------------------------------------------------------------------------
(* Runs during which another process removes an entry of the pair the      *)
(* merge loop stands on, after both directories were listed.               *)

Vanish ==
  /\ Paired
  /\ \A i \in 1..Len(trace) : trace[i].t # "env"
  /\ \E p \in {ItSrc(Top).path, ItDst(Top).path} :
       LET q == LPlace(fs, p)
       IN  /\ q # NoPath
           /\ q \in DOMAIN fs
           /\ fs' = [x \in {r \in DOMAIN fs : ~IsPrefix(q, r)} |-> fs[x]]
           /\ trace' = Append(trace, Item("env", "vanish", p, NoPath, <<>>, TRUE))
  /\ UNCHANGED <<fs0, opts, pc, stack, err, ret, runs>>

InitRace == InitOf(TreePairs, Modes)

NextRace == Next \/ Vanish

SpecRace == InitRace /\ [][NextRace]_vars

---------------------------------------------------------------------------
(* Runs over directories with fork names, with the fork filters of the two *)
(* sides, show-subtree, new, delete and the exports.                       *)

ForkOptions ==
  {[Defaults EXCEPT !.diff = TRUE, !.showSubtree = TRUE, !.new = n, !.delete = d,
                    !.ignoreForksSrc = k, !.ignoreForksDst = l] :
     n \in BOOLEAN, d \in BOOLEAN, k \in BOOLEAN, l \in BOOLEAN}

InitFork ==
  \/ InitOf(DiffPairs, ForkOptions)
  \/ InitOf(DiffPairs, WithExports(ForkOptions))

SpecFork == InitFork /\ [][Next]_vars

---------------------------------------------------------------------------
(* Properties.  Within one run every entry is classified before the run    *)
(* touches it, so the entries an event names are described by fs0.         *)

EvIdx(what) == {i \in 1..Len(trace) : trace[i].t = "ev" /\ trace[i].what = what}

Kind0(p) == LStat(fs0, p).kind
Data0(p) == LStat(fs0, p).data
Mtime0(p) == LStat(fs0, p).mtime

\* trace[j] is the filesystem call `what` at path p really made.
IsCall(j, what, p) ==
  /\ trace[j].t = "op"
  /\ trace[j].what = what
  /\ trace[j].p = p
  /\ trace[j].real

\* The items the handler of event i appended: up to the next event.
HandlerOf(i) ==
  {j \in (i + 1)..Len(trace) :
     \A k \in (i + 1)..j : trace[k].t \notin {"ev", "ret"}}

\* The handler of event i (src p, dst q) really copied p to q.
Copied(i) ==
  \E j \in HandlerOf(i) : IsCall(j, "copy", trace[i].q) /\ trace[j].q = trace[i].p

\* The same fields, whatever the mtime.
SameEntry(n, m) == n.kind = m.kind /\ n.data = m.data /\ n.target = m.target

\* The pairs of regular files with one name in the two root directories.
RegularPairs0 == {n \in Names : Kind0(SRCDIR \o <<n>>) = "file" /\ Kind0(DSTDIR \o <<n>>) = "file"}

EqualByPolicy0(p, q) ==
  /\ Len(Data0(p)) = Len(Data0(q))
  /\ opts.ignoreContent \/ Data0(p) = Data0(q)

\* C7: a same-name pair of regular files is classified Match iff the sizes
\* are equal and (ignore-content is set or the bytes are equal), and
\* Mismatch otherwise; every such pair of a finished run is classified.
Thm_C7 ==
  /\ \A i \in EvIdx("Match") \cup EvIdx("Mismatch") :
       (Kind0(trace[i].p) = "file" /\ Kind0(trace[i].q) = "file")
         => (trace[i].what = "Match" <=> EqualByPolicy0(trace[i].p, trace[i].q))
  /\ pc = "done" =>
       \A n \in RegularPairs0 :
         \E i \in EvIdx("Match") \cup EvIdx("Mismatch") :
           trace[i].p = SRCDIR \o <<n>> /\ trace[i].q = DSTDIR \o <<n>>

\* Equal sizes and different bytes classified Match (ignore-content), seen
\* next to nothing else: the case the claim singles out.
Wit_C7 ==
  \E i \in EvIdx("Match") :
    /\ Kind0(trace[i].p) = "file"
    /\ Kind0(trace[i].q) = "file"
    /\ Data0(trace[i].p) # Data0(trace[i].q)
    /\ opts.ignoreContent

\* C8: under update a Mismatch pair is copied over the destination iff
\* ignore-mtime is set or the source is strictly newer; a destination that
\* is not copied over stays as it was.
Thm_C8 ==
  \A i \in EvIdx("Mismatch") :
    (ModeUpdate(opts) /\ ~opts.dummyMode) =>
      LET p == trace[i].p
          q == trace[i].q
          go == opts.ignoreMtime \/ Mtime0(p) > Mtime0(q)
      IN  /\ Copied(i) <=> go
          /\ go => SameEntry(LStat(fs, q), LStat(fs0, p))
          /\ ~go => LStat(fs, q) = LStat(fs0, q)

\* A differing destination that is newer than its source is overwritten
\* because ignore-mtime is set.
Wit_C8 ==
  \E i \in EvIdx("Mismatch") :
    /\ ModeUpdate(opts)
    /\ opts.ignoreMtime
    /\ Mtime0(trace[i].p) < Mtime0(trace[i].q)
    /\ Copied(i)
    /\ SameEntry(LStat(fs, trace[i].q), LStat(fs0, trace[i].p))

\* C9 as claimed: under update with ignore-mtime unset a TypeMismatch
\* destination that is as new as or newer than the source is left alone.
Cex_C9 ==
  \A i \in EvIdx("TypeMismatch") :
    (ModeUpdate(opts) /\ ~opts.ignoreMtime /\ Mtime0(trace[i].p) <= Mtime0(trace[i].q))
      => /\ LStat(fs, trace[i].q) = LStat(fs0, trace[i].q)
         /\ ~\E j \in HandlerOf(i) : IsCall(j, "remove", trace[i].q)

\* C9 amended: under update (not dummy) the destination of every
\* TypeMismatch pair is deleted and the source copied in its place whatever
\* the mtimes and ignore-mtime are; if the copy throws the run ends there.
Thm_C9 ==
  \A i \in EvIdx("TypeMismatch") :
    (ModeUpdate(opts) /\ ~opts.dummyMode) =>
      /\ \E j \in HandlerOf(i) : IsCall(j, "remove", trace[i].q)
      /\ err = "" => LStat(fs, trace[i].q).kind = Kind0(trace[i].p)
      /\ err # "" => pc = "error"

\* A destination newer than the source, ignore-mtime unset, replaced.
Wit_C9 ==
  \E i \in EvIdx("TypeMismatch") :
    /\ ModeUpdate(opts)
    /\ ~opts.ignoreMtime
    /\ Mtime0(trace[i].p) < Mtime0(trace[i].q)
    /\ Kind0(trace[i].q) = "file"
    /\ LStat(fs, trace[i].q).kind = Kind0(trace[i].p)
    /\ err = ""

\* The TypeMismatch events of a regular source file and a destination directory.
FileOverDir == {i \in EvIdx("TypeMismatch") : Kind0(trace[i].p) = "file" /\ Kind0(trace[i].q) = "dir"}

\* The entries of fs0 strictly below q.
Below0(q) == {r \in DOMAIN fs0 : IsPrefix(q, r) /\ r # q}

\* In the handler of event i: the call that removes r, and the copy to q.
RemoveAt(i, r) == CHOOSE j \in HandlerOf(i) : IsCall(j, "remove", r)
CopyAt(i) == CHOOSE j \in HandlerOf(i) : IsCall(j, "copy", trace[i].q)

\* Removal of q's subtree (children before parents), then the copy, and a
\* regular file at q afterwards.
DeleteThenCopy(i) ==
  LET q == trace[i].q
  IN  /\ \A r \in Below0(q) \cup {q} : \E j \in HandlerOf(i) : IsCall(j, "remove", r)
      /\ \A r \in Below0(q) : RemoveAt(i, r) < RemoveAt(i, Front(r))
      /\ Copied(i)
      /\ RemoveAt(i, q) < CopyAt(i)
      /\ LStat(fs, q).kind = "file"
      /\ LStat(fs, q).data = Data0(trace[i].p)
      /\ \A r \in Below0(q) : r \notin DOMAIN fs

IsReport(j, i) ==
  /\ trace[j].t = "out"
  /\ trace[j].what = "Type mismatch:"
  /\ trace[j].p = trace[i].p
  /\ trace[j].q = trace[i].q

\* C10 as claimed: with update enabled, source file x over destination
\* directory x: the report, then the recursive removal, then the copy.
Cex_C10 ==
  \A i \in FileOverDir :
    (ModeUpdate(opts) /\ ~opts.dummyMode) =>
      /\ \E j \in HandlerOf(i) : IsReport(j, i)
      /\ DeleteThenCopy(i)

\* C10 amended: the 'Type mismatch:' report is emitted (first) exactly when
\* diff is enabled as well; in every update run that is not a dummy run the
\* directory is removed recursively, children before parents, then the file
\* is copied, and x is a regular file afterwards.
Thm_C10 ==
  \A i \in FileOverDir :
    (ModeUpdate(opts) /\ ~opts.dummyMode) =>
      /\ ModeDiff(opts) => i + 1 <= Len(trace) /\ IsReport(i + 1, i)
      /\ ~ModeDiff(opts) => ~\E j \in HandlerOf(i) : IsReport(j, i)
      /\ DeleteThenCopy(i)

\* A directory with a subdirectory in it replaced by the source file, with
\* the report.
Wit_C10 ==
  \E i \in FileOverDir :
    /\ ModeUpdate(opts)
    /\ ModeDiff(opts)
    /\ \E r \in Below0(trace[i].q) : Len(r) = Len(trace[i].q) + 2
    /\ IsReport(i + 1, i)
    /\ LStat(fs, trace[i].q).kind = "file"

---------------------------------------------------------------------------
(* Frame properties.                                                       *)

\* The entries at and below `root` are those of fs0, unchanged.
Untouched(root) ==
  \A p \in DOMAIN fs \cup DOMAIN fs0 :
    IsPrefix(root, p) => p \in DOMAIN fs /\ p \in DOMAIN fs0 /\ fs[p] = fs0[p]

Skipped(what) == \E j \in 1..Len(trace) : trace[j].t = "op" /\ trace[j].what = what /\ ~trace[j].real
Done(what) == \E j \in 1..Len(trace) : trace[j].t = "op" /\ trace[j].what = what /\ trace[j].real

\* C1: in dummy mode no filesystem entry is created, changed or removed,
\* whatever the modes, create-missing-dst, copy-ins and copy-del are.
Thm_C1 == opts.dummyMode => fs = fs0

\* A finished dummy run that skipped a mkdir, a remove and a copy, one of
\* them the creation of the missing DSTDIR.
Wit_C1 ==
  /\ opts.dummyMode
  /\ pc = "done"
  /\ Skipped("mkdir") /\ Skipped("remove") /\ Skipped("copy")
  /\ \E j \in 1..Len(trace) : trace[j].t = "op" /\ trace[j].what = "mkdir" /\ trace[j].p = DSTDIR

Thm_C4 == DiffOnly(opts) => Untouched(DSTDIR)

\* A finished diff run that exported a source-only and a destination-only entry.
Wit_C4 ==
  /\ DiffOnly(opts)
  /\ ~opts.dummyMode
  /\ pc = "done"
  /\ EvIdx("SrcOnly") # {} /\ EvIdx("DstOnly") # {}
  /\ ~Untouched(INSDIR) /\ ~Untouched(DELDIR)

---------------------------------------------------------------------------
(* The log of a dummy run and of the real run.                             *)

\* Both runs of a pair finished without an error.
PairDone == Len(runs) = 1 /\ pc = "done" /\ runs[1].err = "" /\ ~opts.dummyMode

\* C2: the stdout lines of a dummy run are, in order, those of the real run
\* with the same options on the same trees.
Cex_C2 == PairDone => runs[1].log = OutLines(trace)

---------------------------------------------------------------------------
(* Convergence.                                                            *)

\* The diff run that follows a run with new, delete and update which did
\* nothing has finished.
DiffAfterSync == Len(runs) >= 1 /\ DiffOnly(opts) /\ pc = "done"

ReportIdx(whats) == {j \in 1..Len(trace) : trace[j].t = "out" /\ trace[j].what \in whats}

\* C5 as stated: the diff run after convergence reports no difference.
Cex_C5 == DiffAfterSync => ReportIdx({"+", "-", "Diff:", "Type mismatch:"}) = {}

\* C5: the diff run after convergence reports no "+", "-" or
\* "Type mismatch:" line, and a "Diff:" line only for a pair that update
\* leaves alone: ignore-mtime is unset and the source is not newer than the
\* destination.
Thm_C5 ==
  DiffAfterSync =>
    /\ ReportIdx({"+", "-", "Type mismatch:"}) = {}
    /\ \A j \in ReportIdx({"Diff:"}) :
         ~opts.ignoreMtime /\ ~SrcNewer(fs, trace[j].p, trace[j].q, opts)

\* The first run copied and removed, the second did nothing, the diff run
\* compared a pair and reported nothing.
Wit_C5 ==
  /\ DiffAfterSync
  /\ Len(runs) = 2
  /\ runs[1].acted /\ ~runs[2].acted
  /\ EvIdx("Match") # {}
  /\ ReportIdx({"+", "-", "Diff:", "Type mismatch:"}) = {}
  /\ ret

---------------------------------------------------------------------------
(* What a diff run reports.                                                *)

\* The filenames of a directory that enter the source or destination map.
Kept(dir, isSrc) ==
  LET ls == ListDir(fs0, dir)
  IN  {ls[i] : i \in {k \in 1..Len(ls) :
         ~(IF isSrc THEN ignoreSrcFile(ls[k], opts) ELSE ignoreDstFile(ls[k], opts))}}

KeysOf(dir, isSrc) == {Key(n, opts) : n \in Kept(dir, isSrc)}

\* The calls of processDir that returned.
Returned == {j \in 1..Len(trace) : trace[j].t = "ret"}

Reported(j, what, p) ==
  \E i \in 1..(j - 1) : trace[i].t = "out" /\ trace[i].what = what /\ trace[i].p = p

\* A report line about the pair p, q.
ReportedPair(p, q) ==
  \E i \in ReportIdx({"+", "-", "=", "Diff:", "Type mismatch:"}) :
    trace[i].p \in {p, q} \/ trace[i].q \in {p, q}

IdenticalRegular0(p, q) ==
  /\ Kind0(p) = "file"
  /\ Kind0(q) = "file"
  /\ Data0(p) = Data0(q)

\* C6: when a diff run has compared two directories, every name of the
\* source map without a counterpart in the destination map has a "+" line,
\* every name of the destination map without a counterpart in the source
\* map has a "-" line, and without show-matches no line is printed about a
\* pair of regular files of one size and one content.
Thm_C6 ==
  \A j \in Returned :
    LET src == trace[j].p
        dst == trace[j].q
    IN  /\ \A n \in Kept(src, TRUE) :
             Key(n, opts) \notin KeysOf(dst, FALSE) => Reported(j, "+", Append(src, n))
        /\ \A n \in Kept(dst, FALSE) :
             Key(n, opts) \notin KeysOf(src, TRUE) => Reported(j, "-", Append(dst, n))
        /\ \A n \in Kept(src, TRUE), m \in Kept(dst, FALSE) :
             /\ Key(n, opts) = Key(m, opts)
             /\ IdenticalRegular0(Append(src, n), Append(dst, m))
             /\ ~opts.showMatches
             => ~ReportedPair(Append(src, n), Append(dst, m))

\* A finished diff run that compared a subdirectory, with a source-only and
\* a destination-only name in it or above it and a pair of identical
\* regular files under two spellings of one name.
Wit_C6 ==
  /\ pc = "done"
  /\ Cardinality(Returned) = 2
  /\ ReportIdx({"+"}) # {} /\ ReportIdx({"-"}) # {}
  /\ opts.normalizeFilenames
  /\ IdenticalRegular0(SRCDIR \o <<"e_nfc">>, DSTDIR \o <<"e_nfd">>)
  /\ ~ReportedPair(SRCDIR \o <<"e_nfc">>, DSTDIR \o <<"e_nfd">>)

---------------------------------------------------------------------------
(* The overwrite rule.                                                     *)

\* The trace items a step appends.
NewIdx == (Len(trace) + 1)..Len(trace')

\* The path an overwriting copy of the handler of event e writes to, and
\* the entry it copies; NoPath when the handler makes no such copy.
OverwriteTarget(e) ==
  IF e.what \in {"Mismatch", "TypeMismatch"} /\ ModeUpdate(opts) THEN e.q
  ELSE IF e.what = "SrcOnly" /\ ModeDiff(opts) /\ opts.copyIns # NoPath
  THEN Append(opts.copyIns, Last(e.p))
  ELSE IF e.what = "DstOnly" /\ ModeDiff(opts) /\ opts.copyDel # NoPath
  THEN Append(opts.copyDel, Last(e.q))
  ELSE NoPath

OverwriteSource(e) == IF e.what = "DstOnly" THEN e.q ELSE e.p

\* Item j of the extended trace is a call that creates something at or below t.
WritesAt(j, t) ==
  /\ trace'[j].t = "op"
  /\ trace'[j].what \in {"copy", "mkdir"}
  /\ trace'[j].real
  /\ IsPrefix(t, trace'[j].p)

RemovesAt(k, r) ==
  /\ trace'[k].t = "op"
  /\ trace'[k].what = "remove"
  /\ trace'[k].real
  /\ trace'[k].p = r

\* Before the first write at or below t, t and everything below it was removed.
RemovedBeforeWrite(i, t) ==
  \A j \in NewIdx :
    j > i /\ WritesAt(j, t) =>
      \A r \in DOMAIN fs :
        IsPrefix(t, r) => \E k \in (i + 1)..(j - 1) : RemovesAt(k, r)

\* Nothing at or below t is older than this run.
AllFresh(f, t) == \A r \in DOMAIN f : IsPrefix(t, r) => f[r].mtime = Now

OverwriteRule(i) ==
  LET e == trace'[i]
      t == OverwriteTarget(e)
      s == OverwriteSource(e)
  IN  /\ t # NoPath
      /\ ~opts.dummyMode
      /\ LStat(fs, t).kind # "none"
      /\ LStat(fs, s).kind # "file" \/ LStat(fs, t).kind # "file"
      /\ \E j \in NewIdx : j > i /\ WritesAt(j, t)
      => /\ RemovedBeforeWrite(i, t)
         /\ err' = "" => AllFresh(fs', t)

\* C11: when an overwriting copy (update of a Mismatch or TypeMismatch
\* pair, copy-ins, copy-del) writes to an existing target and the source or
\* the target is not a regular file, the target and all below it are removed
\* before the first write, and afterwards nothing of the old target is left.
Thm_C11 ==
  [][\A i \in NewIdx : trace'[i].t = "ev" => OverwriteRule(i)]_vars

\* A finished run exported a source-only regular file over a directory of
\* the copy-ins directory: the directory's file, then the directory were
\* removed, then the file was copied.
Wit_C11 ==
  /\ pc = "done"
  /\ ~opts.dummyMode
  /\ opts.copyIns = INSDIR
  /\ Kind0(INSDIR \o <<"a">>) = "dir"
  /\ Kind0(SRCDIR \o <<"a">>) = "file"
  /\ \E i, j, k \in 1..Len(trace) :
       /\ i < j /\ j < k
       /\ IsCall(i, "remove", INSDIR \o <<"a", "b">>)
       /\ IsCall(j, "remove", INSDIR \o <<"a">>)
       /\ IsCall(k, "copy", INSDIR \o <<"a">>)
  /\ LStat(fs, INSDIR \o <<"a">>).kind = "file"

---------------------------------------------------------------------------
(* The verdict of processDir.                                              *)

Differences == {"SrcOnly", "DstOnly", "Mismatch", "TypeMismatch"}

\* The events before item j about entries below src and dst.
EventsIn(j, src, dst, whats) ==
  {i \in 1..(j - 1) :
     /\ trace[i].t = "ev"
     /\ trace[i].what \in whats
     /\ IsPrefix(src, trace[i].p)
     /\ trace[i].q = NoPath \/ IsPrefix(dst, trace[i].q)}

\* The name n of directory src or dst was classified Match, or is a pair of
\* directories whose comparison returned true.
PairsToMatch(j, src, dst, n) ==
  \/ \E i \in EventsIn(j, src, dst, {"Match"}) :
       trace[i].p = Append(src, n) \/ trace[i].q = Append(dst, n)
  \/ \E k \in 1..(j - 1) :
       /\ trace[k].t = "ret"
       /\ trace[k].x[1]
       /\ trace[k].p = Append(src, n) \/ trace[k].q = Append(dst, n)

\* C12 as stated: processDir returns true iff every name of either map
\* pairs to Match and no difference event occurs in the subtree.
Cex_C12 ==
  \A j \in Returned :
    trace[j].x[1] <=>
      /\ EventsIn(j, trace[j].p, trace[j].q, Differences) = {}
      /\ \A n \in Kept(trace[j].p, TRUE) : PairsToMatch(j, trace[j].p, trace[j].q, n)
      /\ \A n \in Kept(trace[j].q, FALSE) : PairsToMatch(j, trace[j].p, trace[j].q, n)

\* C12: processDir returns true iff no SrcOnly, DstOnly, Mismatch or
\* TypeMismatch event was emitted for its directory pair or for a pair of
\* subdirectories it descended into; pairs that are ignored (ignore-dirs,
\* ignore-special) count as no difference.
Thm_C12 ==
  \A j \in Returned :
    trace[j].x[1] <=> EventsIn(j, trace[j].p, trace[j].q, Differences) = {}

\* A finished run whose root verdict is false only because of a difference
\* inside a subdirectory, after a Match in the root directory.
Wit_C12 ==
  /\ pc = "done"
  /\ ~ret
  /\ Cardinality(Returned) = 2
  /\ \E j \in Returned : ~trace[j].x[1] /\ Len(trace[j].p) = 2
  /\ EventsIn(Len(trace), SRCDIR, DSTDIR, {"Match"}) # {}
  /\ \A i \in EventsIn(Len(trace), SRCDIR, DSTDIR, Differences) :
       IsPrefix(SRCDIR \o <<"a">>, trace[i].p)

---------------------------------------------------------------------------
(* The fork filters.                                                       *)

IsFork(p) == p # NoPath /\ hasForkPrefix(Last(p))

\* Item i is an event about the source entry p / the destination entry q,
\* or the return of processDir from the directory p / q.
AboutSrc(i, p) ==
  \/ /\ trace[i].t = "ev"
     /\ trace[i].what \in {"SrcOnly", "Match", "Mismatch", "TypeMismatch",
                           "IgnoredFile", "IgnoredDir"}
     /\ trace[i].p = p
  \/ trace[i].t = "ret" /\ trace[i].p = p

AboutDst(i, q) ==
  \/ /\ trace[i].t = "ev"
     /\ \/ trace[i].what \in {"DstOnly", "Match", "Mismatch", "TypeMismatch"} /\ trace[i].q = q
        \/ trace[i].what \in {"IgnoredFile", "IgnoredDir"} /\ trace[i].p = q
  \/ trace[i].t = "ret" /\ trace[i].q = q

\* No event, no "+" line and no copy for a fork of the source side.
SrcForksOut ==
  \A i \in 1..Len(trace) :
    /\ trace[i].t = "ev" /\ trace[i].what \in {"SrcOnly", "Match", "Mismatch", "TypeMismatch"}
         => ~IsFork(trace[i].p)
    /\ trace[i].t = "out" /\ trace[i].what = "+" => ~IsFork(trace[i].p)
    /\ trace[i].t = "op" /\ trace[i].what = "copy" /\ IsPrefix(SRCDIR, trace[i].q)
         => ~IsFork(trace[i].q)
    /\ trace[i].t = "op" /\ trace[i].what = "mkdir" /\ IsPrefix(DSTDIR, trace[i].p)
         => ~IsFork(trace[i].p)

\* No event and no "-" line for a fork of the destination side.
DstForksOut ==
  \A i \in 1..Len(trace) :
    /\ trace[i].t = "ev" /\ trace[i].what \in {"DstOnly", "Match", "Mismatch", "TypeMismatch"}
         => ~IsFork(trace[i].q)
    /\ trace[i].t = "out" /\ trace[i].what = "-" => ~IsFork(trace[i].p)

\* In every compared pair of directories, the filenames of a side that
\* got an event are those not excluded by that side's own filter.
OwnFilterOnly ==
  \A j \in Returned :
    LET src == trace[j].p
        dst == trace[j].q
        sn == ListDir(fs0, src)
        dn == ListDir(fs0, dst)
    IN  /\ \A k \in 1..Len(sn) :
             (\E i \in 1..(j - 1) : AboutSrc(i, Append(src, sn[k])))
               <=> ~(opts.ignoreForksSrc /\ hasForkPrefix(sn[k]))
        /\ \A k \in 1..Len(dn) :
             (\E i \in 1..(j - 1) : AboutDst(i, Append(dst, dn[k])))
               <=> ~(opts.ignoreForksDst /\ hasForkPrefix(dn[k]))

\* C13: with the fork filter of a side set, no "._" entry of that side gets
\* a SrcOnly, DstOnly, Match, Mismatch or TypeMismatch event or a line of
\* the show-subtree listing, and none of the source side is copied; whether
\* an entry of a side enters its map depends on that side's filter only.
Thm_C13 ==
  /\ opts.ignoreForksSrc => SrcForksOut
  /\ opts.ignoreForksDst => DstForksOut
  /\ OwnFilterOnly

\* A finished run with the source filter only: the fork in DSTDIR is
\* destination-only although SRCDIR has one of the same name, and the
\* source-only directory was copied without its fork.
Wit_C13 ==
  /\ pc = "done"
  /\ opts.ignoreForksSrc /\ ~opts.ignoreForksDst
  /\ ModeNew(opts)
  /\ Kind0(SRCDIR \o <<"._a">>) = "file"
  /\ \E i \in 1..Len(trace) : AboutDst(i, DSTDIR \o <<"._a">>) /\ trace[i].what = "DstOnly"
  /\ Kind0(SRCDIR \o <<"a", "._a">>) = "file"
  /\ \E i \in 1..Len(trace) : IsCall(i, "copy", DSTDIR \o <<"a", "b">>)
  /\ LStat(fs, DSTDIR \o <<"a", "._a">>).kind = "none"

---------------------------------------------------------------------------
(* Forks of the destination under delete.                                  *)

\* C14: with ignore-forks-dst, a run with delete removes no entry of
\* DSTDIR whose filename starts with "._", at any depth.
Cex_C14 ==
  opts.ignoreForksDst /\ ModeDelete(opts) =>
    \A i \in 1..Len(trace) :
      trace[i].t = "op" /\ trace[i].what = "remove" /\ trace[i].real
      /\ IsPrefix(DSTDIR, trace[i].p)
        => ~IsFork(trace[i].p)

---------------------------------------------------------------------------
(* Canonically equivalent filenames.                                       *)

\* The two spellings, n in SRCDIR and m in DSTDIR.
Spellings == {<<"e_nfc", "e_nfd">>, <<"e_nfd", "e_nfc">>}

HasEvent(what, p, q) ==
  \E i \in EvIdx(what) : trace[i].p = p /\ trace[i].q = q

\* C15: of two canonically equivalent, byte-distinct filenames, one in
\* SRCDIR and one in DSTDIR, a finished run with normalize-filenames makes
\* one pair (no SrcOnly, no DstOnly), and a run without it classifies the
\* first SrcOnly and the second DstOnly.
Thm_C15 ==
  \A nm \in Spellings :
    LET p == SRCDIR \o <<nm[1]>>
        q == DSTDIR \o <<nm[2]>>
    IN  pc = "done" /\ Kind0(p) # "none" /\ Kind0(q) # "none" =>
          IF opts.normalizeFilenames
          THEN /\ ~HasEvent("SrcOnly", p, DSTDIR)
               /\ ~HasEvent("DstOnly", SRCDIR, q)
               /\ \E w \in {"Match", "Mismatch", "TypeMismatch"} : HasEvent(w, p, q)
          ELSE /\ HasEvent("SrcOnly", p, DSTDIR)
               /\ HasEvent("DstOnly", SRCDIR, q)
               /\ \A w \in {"Match", "Mismatch", "TypeMismatch"} : ~HasEvent(w, p, q)

\* A finished run with normalize-filenames paired the precomposed name of
\* SRCDIR with the decomposed name of DSTDIR.
Wit_C15 ==
  /\ pc = "done"
  /\ opts.normalizeFilenames
  /\ toNfd("e_nfc") # "e_nfc"
  /\ HasEvent("Match", SRCDIR \o <<"e_nfc">>, DSTDIR \o <<"e_nfd">>)
  /\ EvIdx("SrcOnly") = {} /\ EvIdx("DstOnly") = {}

---------------------------------------------------------------------------
(* The checks of SRCDIR and DSTDIR.                                        *)

SrcBad == ~fsExists(fs0, SRCDIR) \/ ~fsIsDirectory(fs0, SRCDIR, opts.followSymlinks)
DstBad == ~fsExists(fs0, DSTDIR) \/ ~fsIsDirectory(fs0, DSTDIR, opts.followSymlinks)

\* main creates a missing DSTDIR before the checks.
DstCreated ==
  ModeNew(opts) /\ opts.createMissingDst /\ ~opts.dummyMode /\ ~fsExists(fs0, DSTDIR)

\* One error message, no processDir, no event.
AbortedBeforeTraversal ==
  /\ pc = "error"
  /\ Cardinality({i \in 1..Len(trace) : trace[i].t = "err"}) = 1
  /\ \A i \in 1..Len(trace) : trace[i].t \notin {"ev", "ret"}
  /\ stack = <<>>

\* C16 as stated: a bad SRCDIR, or a bad DSTDIR unless create-missing-dst
\* and dummy-mode are both set, ends the run before any traversal.
Cex_C16 ==
  pc # "main" /\ (SrcBad \/ (DstBad /\ ~(opts.createMissingDst /\ opts.dummyMode)))
    => AbortedBeforeTraversal

\* C16: a missing or non-directory SRCDIR, or a DSTDIR that is missing or
\* not a directory when it is checked (create-missing-dst with new or update
\* has created a missing DSTDIR by then; with create-missing-dst and
\* dummy-mode DSTDIR is not checked), ends the run with one error message
\* before processDir is entered and before any event.
Thm_C16 ==
  pc # "main"
  /\ (SrcBad \/ (DstBad /\ ~(opts.createMissingDst /\ opts.dummyMode) /\ ~DstCreated))
    => AbortedBeforeTraversal

\* The run ended at the check of a DSTDIR that is a regular file.
Wit_C16 ==
  /\ pc = "error"
  /\ ~SrcBad
  /\ Kind0(DSTDIR) = "file"
  /\ err = "DSTDIR is not a directory!"
  /\ Len(trace) = 1
  /\ fs = fs0

---------------------------------------------------------------------------
(* A failing filesystem operation.                                         *)

\* The first filesystem call a step really makes: it runs in the state the
\* step starts from.
FirstOp ==
  {j \in NewIdx :
     /\ trace'[j].t = "op" /\ trace'[j].real
     /\ \A k \in NewIdx : k < j => ~(trace'[k].t = "op" /\ trace'[k].real)}

\* The call of item j fails in the filesystem f.
Fails(j, f) ==
  LET c == trace'[j]
  IN  CASE c.what = "copy" -> FsCopy(f, c.q, c.p, TRUE, CopySymlinks(opts)).e # ""
        [] c.what = "remove" -> FsRemove(f, c.p).e # ""
        [] c.what = "mkdir" -> FsCreateDirectories(f, c.p).e # ""
        [] OTHER -> FALSE

ErrIdx(tr) == {i \in 1..Len(tr) : tr[i].t = "err"}

\* C17: a failing copy, remove or create-directory ends the run: nothing is
\* dispatched or called after it, the error is reported once, and no step
\* follows the report.
Thm_C17 ==
  [][/\ pc # "error"
     /\ \A j \in FirstOp :
          Fails(j, fs) =>
            /\ pc' = "error"
            /\ Len(trace') = j + 1
            /\ fs' = fs
     /\ pc' = "error" =>
          /\ ErrIdx(trace') = {Len(trace')}
          /\ stack' = <<>>]_vars

\* The copy of a source-only fifo failed: the run ended there, with the
\* file b of SRCDIR never classified.
Wit_C17 ==
  /\ pc = "error"
  /\ err = "copy: invalid argument"
  /\ Kind0(SRCDIR \o <<"a">>) = "fifo"
  /\ Kind0(SRCDIR \o <<"b">>) = "file"
  /\ Len(trace) >= 2
  /\ IsCall(Len(trace) - 1, "copy", DSTDIR \o <<"a">>)
  /\ \A i \in 1..Len(trace) : trace[i].t = "ev" => trace[i].p # SRCDIR \o <<"b">>
  /\ fs = fs0

---------------------------------------------------------------------------
(* An entry that vanished after the directory listing.                     *)

VanishIdx == {i \in 1..Len(trace) : trace[i].t = "env"}

\* The items about the pair of the vanished entry trace[i].p.
AboutVanished(i, j) ==
  /\ j > i
  /\ \/ trace[j].p # NoPath /\ Tail(trace[j].p) = Tail(trace[i].p)
     \/ trace[j].q # NoPath /\ Tail(trace[j].q) = Tail(trace[i].p)

\* C18 as stated: a pair with a vanished entry on either side is handled as
\* IgnoredFile only, no filesystem call is made for it, and the verdict of
\* its directory is not changed by it.
Cex_C18 ==
  \A i \in VanishIdx : \A j \in 1..Len(trace) :
    AboutVanished(i, j) =>
      /\ trace[j].t = "ev" => trace[j].what = "IgnoredFile"
      /\ trace[j].t # "op"

---------------------------------------------------------------------------
(* The removal of a destination-only subtree.                              *)

\* The path removeRecursive uses for the place r below the entry q at place t.
PathBelow(q, t, r) == q \o SubSeq(r, Len(t) + 1, Len(r))

\* Item k removes path p, after its "Deleting" line if the run is verbose.
RemovedAndLogged(k, p) ==
  /\ RemovesAt(k, p)
  /\ Verbose(opts) =>
       /\ trace'[k - 1].t = "out"
       /\ trace'[k - 1].what = "Deleting"
       /\ trace'[k - 1].p = p

\* The handler of the DstOnly event i removed everything at and below its
\* entry, each directory after all that was in it.
SubtreeRemoved(i) ==
  LET q == trace'[i].q
      t == LPlace(fs, q)
  IN  /\ t \in DOMAIN fs
      /\ \A r \in DOMAIN fs :
           IsPrefix(t, r) =>
             /\ r \notin DOMAIN fs'
             /\ \E k \in NewIdx :
                  /\ k > i
                  /\ RemovedAndLogged(k, PathBelow(q, t, r))
                  /\ \A r2 \in DOMAIN fs :
                       IsPrefix(r, r2) /\ r2 # r =>
                         \E k2 \in NewIdx : k2 > i /\ k2 < k /\ RemovesAt(k2, PathBelow(q, t, r2))

\* C19: with delete and without dummy mode the handler of every DstOnly
\* entry removes the whole subtree below it, every entry after all its
\* descendants and after its log line when verbose; when the run is done no
\* DstOnly entry exists any more.
Thm_C19 ==
  [][ModeDelete(opts) /\ ~opts.dummyMode =>
       /\ \A i \in NewIdx :
            trace'[i].t = "ev" /\ trace'[i].what = "DstOnly" => SubtreeRemoved(i)
       /\ pc' = "done" =>
            \A i \in 1..Len(trace') :
              trace'[i].t = "ev" /\ trace'[i].what = "DstOnly" =>
                LStat(fs', trace'[i].q).kind = "none"]_vars

\* A verbose deleting run is done after the destination-only directory a
\* with a directory and a file in it was removed.
Wit_C19 ==
  /\ pc = "done"
  /\ ModeDelete(opts) /\ ~opts.dummyMode /\ Verbose(opts)
  /\ Kind0(DSTDIR \o <<"a", "a", "a">>) = "file"
  /\ Kind0(DSTDIR \o <<"a", "b">>) = "file"
  /\ \E i \in EvIdx("DstOnly") : trace[i].q = DSTDIR \o <<"a">>
  /\ \A r \in DOMAIN fs : ~IsPrefix(DSTDIR \o <<"a">>, r)

---------------------------------------------------------------------------
(* The copy of a source-only subtree.                                      *)

\* A name at or below the entry p of the path r is hidden by the source
\* fork filter.
FilteredBelow(p, r) ==
  opts.ignoreForksSrc /\ \E n \in Len(p)..Len(r) : hasForkPrefix(r[n])

\* Every entry at and below the source entry of the SrcOnly event i that the
\* fork filter lets through has a counterpart below the destination directory.
HasCounterparts(i) ==
  LET p == trace[i].p
      q == trace[i].q
  IN  \A r \in DOMAIN fs0 :
        IsPrefix(p, r) /\ ~FilteredBelow(p, r) =>
          LStat(fs, q \o SubSeq(r, Len(p), Len(r))).kind # "none"

\* C20 as stated: after a run with new, not in dummy mode, every entry of
\* every SrcOnly subtree that the fork filter lets through has a counterpart
\* in the destination.
Cex_C20 ==
  pc \in {"done", "error"} /\ ModeNew(opts) /\ ~opts.dummyMode =>
    \A i \in EvIdx("SrcOnly") : HasCounterparts(i)

---------------------------------------------------------------------------
(* The order of the classifications of one processDir call.                *)

\* Item i classifies a key of the call processDir(src, dst): an event about
\* an entry of src or dst (for an ignored pair the event of its source
\* entry), or the return of the recursive call for a pair of directories.
InCall(i, src, dst) ==
  LET c == trace[i]
  IN  CASE c.t = "ev" /\ c.what = "SrcOnly" -> Front(c.p) = src /\ c.q = dst
        [] c.t = "ev" /\ c.what = "DstOnly" -> c.p = src /\ Front(c.q) = dst
        [] c.t = "ev" /\ c.what \in {"Match", "Mismatch", "TypeMismatch"} ->
             Front(c.p) = src /\ Front(c.q) = dst
        [] c.t = "ev" /\ c.what \in {"IgnoredFile", "IgnoredDir"} -> Front(c.p) = src
        [] c.t = "ret" -> Len(c.p) > 1 /\ Front(c.p) = src /\ Front(c.q) = dst
        [] OTHER -> FALSE

ClassIdx(src, dst) == {i \in 1..Len(trace) : InCall(i, src, dst)}

\* The key item i classifies.
KeyAt(i) ==
  LET c == trace[i]
  IN  Key(Last(IF c.t = "ev" /\ c.what = "DstOnly" THEN c.q ELSE c.p), opts)

\* The pairs of directories a call of processDir was made for.
CallsSeen ==
  {<<SRCDIR, DSTDIR>>}
  \cup {<<trace[j].p, trace[j].q>> : j \in Returned}
  \cup {<<stack[n].src, stack[n].dst>> : n \in 1..Len(stack)}

\* An ignored pair dispatches the event of the destination entry directly
\* after that of the source entry.
IgnoredTwice(i) ==
  trace[i].t = "ev" /\ trace[i].what \in {"IgnoredFile", "IgnoredDir"} =>
    \E k \in (i + 1)..Len(trace) :
      /\ trace[k].t = "ev" /\ trace[k].what = trace[i].what
      /\ Key(Last(trace[k].p), opts) = KeyAt(i)
      /\ \A m \in (i + 1)..(k - 1) : trace[m].t \notin {"ev", "ret"}

\* In the merge loop the conditions of exactly one step hold.
OneStepPossible ==
  pc = "loop" =>
    LET g == <<IsSrcOnly(Top),
               IsDstOnly(Top),
               Paired /\ SrcType # DstType,
               Paired /\ SrcType = DstType /\ SrcType = "file",
               Paired /\ SrcType = DstType /\ SrcType = "dir",
               Paired /\ SrcType = DstType /\ SrcType \notin {"file", "dir"},
               SrcEnd(Top) /\ DstEnd(Top)>>
    IN  Cardinality({n \in 1..7 : g[n]}) = 1

\* C21: in one call of processDir the keys are classified in strictly
\* ascending order, each key of the two maps once by the time the call
\* returns; the items of a recursive call lie between those of the keys
\* before and after its directory; and every state of the merge loop has
\* one possible step.
Thm_C21 ==
  /\ \A c \in CallsSeen :
       /\ \A i1, i2 \in ClassIdx(c[1], c[2]) :
            i1 < i2 => NameLess(KeyAt(i1), KeyAt(i2))
       /\ \A i \in ClassIdx(c[1], c[2]) : IgnoredTwice(i)
  /\ \A j \in Returned :
       LET src == trace[j].p
           dst == trace[j].q
       IN  /\ {KeyAt(i) : i \in ClassIdx(src, dst)}
                = KeysOf(src, TRUE) \cup KeysOf(dst, FALSE)
           /\ Len(src) > 1 =>
                \A i \in ClassIdx(src, dst) : \A m \in ClassIdx(Front(src), Front(dst)) :
                  m < j => m < i
  /\ OneStepPossible

\* A finished run over two root directories with a fork file, a directory a
\* with two entries on both sides and a last name: the fork first, then the
\* two entries of a, then the last name.
Wit_C21 ==
  /\ pc = "done"
  /\ ~opts.ignoreDirs /\ ~opts.ignoreForksSrc
  /\ \E i1, i2, i3, i4 \in 1..Len(trace) :
       /\ i1 < i2 /\ i2 < i3 /\ i3 < i4
       /\ InCall(i1, SRCDIR, DSTDIR) /\ KeyAt(i1) = "._a"
       /\ InCall(i2, SRCDIR \o <<"a">>, DSTDIR \o <<"a">>) /\ KeyAt(i2) = "._a"
       /\ InCall(i3, SRCDIR \o <<"a">>, DSTDIR \o <<"a">>) /\ KeyAt(i3) = "b"
       /\ InCall(i4, SRCDIR, DSTDIR) /\ KeyAt(i4) = "e_nfd"

---------------------------------------------------------------------------
(* Reading file contents.                                                  *)

\* C22: a file content is read only for a pair of regular files with one
\* key and equal sizes, in a run without ignore-content.
Thm_C22 ==
  [][\A i \in NewIdx :
       trace'[i].t = "rd" =>
         LET p == trace'[i].p
             q == trace'[i].q
         IN  /\ ~opts.ignoreContent
             /\ Key(Last(p), opts) = Key(Last(q), opts)
             /\ {Front(p), Front(q)} = {Top.src, Top.dst}
             /\ getFileType(fs, p, opts.followSymlinks) = "file"
             /\ getFileType(fs, q, opts.followSymlinks) = "file"
             /\ file_size(fs, p) = file_size(fs, q)]_vars

\* The contents of the two files a, of one size, were read, source first,
\* and found different.
Wit_C22 ==
  /\ pc = "done"
  /\ \E i \in 1..Len(trace) :
       /\ trace[i].t = "rd" /\ trace[i].p = SRCDIR \o <<"a">>
       /\ trace[i + 1].t = "rd" /\ trace[i + 1].p = DSTDIR \o <<"a">>
       /\ trace[i + 2].t = "ev" /\ trace[i + 2].what = "Mismatch"
       /\ file_size(fs0, trace[i].p) = file_size(fs0, trace[i + 1].p)

---------------------------------------------------------------------------
(* Ignored directories.                                                    *)

StrictlyBelow(d, p) == p # NoPath /\ IsPrefix(d, p) /\ p # d

\* Nothing in the trace tr names a path inside the directory d, and in the
\* filesystem f everything inside d is as at the start of the run.
InsideUntouched(d, tr, f) ==
  /\ \A j \in 1..Len(tr) : ~StrictlyBelow(d, tr[j].p) /\ ~StrictlyBelow(d, tr[j].q)
  /\ \A r \in DOMAIN fs0 \cup DOMAIN f :
       StrictlyBelow(d, r) => r \in DOMAIN fs0 /\ r \in DOMAIN f /\ f[r] = fs0[r]

\* C23: with ignore-dirs the step for a name that is a directory on both
\* sides dispatches IgnoredDir for the source entry and then for the
\* destination entry and no other event, makes no filesystem call, enters no
\* directory and leaves the verdict as it was; nothing inside a directory so
\* ignored is ever named in a report or a call, or changed.
Thm_C23 ==
  [][/\ opts.ignoreDirs /\ Paired /\ SrcType = "dir" /\ DstType = "dir" =>
          LET ev == {i \in NewIdx : trace'[i].t = "ev"}
          IN  /\ \E i1, i2 \in ev :
                   /\ i1 < i2 /\ ev = {i1, i2}
                   /\ trace'[i1].what = "IgnoredDir" /\ trace'[i1].p = ItSrc(Top).path
                   /\ trace'[i2].what = "IgnoredDir" /\ trace'[i2].p = ItDst(Top).path
              /\ \A i \in NewIdx : trace'[i].t \notin {"op", "ret", "rd"}
              /\ fs' = fs
              /\ pc' = "loop"
              /\ Len(stack') = Len(stack)
              /\ stack'[Len(stack')].noDifferenceFound = Top.noDifferenceFound
     /\ \A i \in 1..Len(trace') :
          trace'[i].t = "ev" /\ trace'[i].what = "IgnoredDir" =>
            InsideUntouched(trace'[i].p, trace', fs')]_vars

\* A finished run with ignore-dirs, update and delete over two directories a
\* that differ inside: both got IgnoredDir, the verdict is true, and the
\* directories still differ.
Wit_C23 ==
  /\ pc = "done"
  /\ opts.ignoreDirs /\ ModeUpdate(opts) /\ ModeDelete(opts)
  /\ ret
  /\ HasEvent("IgnoredDir", SRCDIR \o <<"a">>, NoPath)
  /\ HasEvent("IgnoredDir", DSTDIR \o <<"a">>, NoPath)
  /\ LStat(fs, SRCDIR \o <<"a", "b">>).kind = "file"
  /\ LStat(fs, DSTDIR \o <<"a", "b">>).kind = "none"
  /\ LStat(fs, DSTDIR \o <<"a", "a">>).kind = "file"

---------------------------------------------------------------------------
(* Two filenames with one normalized key in one directory.                 *)

\* The root directory dir holds both spellings and the run normalizes.
Collides(dir) ==
  /\ opts.normalizeFilenames
  /\ dir \o <<"e_nfc">> \in DOMAIN fs0
  /\ dir \o <<"e_nfd">> \in DOMAIN fs0

\* The spelling the directory lists later, and the one it lists earlier.
ListedLater(dir) ==
  LET ls == ListDir(fs0, dir)
      i == CHOOSE i \in 1..Len(ls) :
             /\ ls[i] \in {"e_nfc", "e_nfd"}
             /\ \A j \in 1..Len(ls) : ls[j] \in {"e_nfc", "e_nfd"} => j <= i
  IN  ls[i]

ListedEarlier(dir) == IF ListedLater(dir) = "e_nfc" THEN "e_nfd" ELSE "e_nfc"

NamesPath(i, path) == trace[i].p = path \/ trace[i].q = path

\* C24: of two filenames of a compared directory with one normalized key,
\* no event and no report line names the one listed earlier, and when the
\* run is done exactly one event names the one listed later.
Thm_C24 ==
  \A dir \in {SRCDIR, DSTDIR} :
    Collides(dir) =>
      /\ \A i \in 1..Len(trace) :
           trace[i].t \in {"ev", "out"} => ~NamesPath(i, dir \o <<ListedEarlier(dir)>>)
      /\ pc = "done" =>
           Cardinality({i \in 1..Len(trace) :
                          trace[i].t = "ev" /\ NamesPath(i, dir \o <<ListedLater(dir)>>)}) = 1

\* A finished diff run over a SRCDIR that lists the composed spelling first
\* and an empty DSTDIR: only the decomposed spelling was reported.
Wit_C24 ==
  /\ pc = "done"
  /\ Collides(SRCDIR)
  /\ ModeDiff(opts)
  /\ ListDir(fs0, SRCDIR) = <<"e_nfc", "e_nfd">>
  /\ ListDir(fs0, DSTDIR) = <<>>
  /\ HasEvent("SrcOnly", SRCDIR \o <<"e_nfd">>, DSTDIR)
  /\ ReportIdx({"+"}) # {}
  /\ \A i \in ReportIdx({"+"}) : trace[i].p = SRCDIR \o <<"e_nfd">>

---------------------------------------------------------------------------
(* The kind of a copied entry.                                             *)

\* The kind of the source entry of the SrcOnly event i and the kind of the
\* entry of that name in its destination directory, as the run classifies
\* them.
CopiedKinds(i) ==
  <<getFileType(fs, trace[i].p, opts.followSymlinks),
    getFileType(fs, Append(trace[i].q, Last(trace[i].p)), opts.followSymlinks)>>

\* C25 as stated: when a run with new or update, not in dummy mode, is done,
\* the entry copied for a SrcOnly event has the kind of its source entry.
Cex_C25 ==
  pc = "done" /\ ModeNew(opts) /\ ~opts.dummyMode =>
    \A i \in EvIdx("SrcOnly") : CopiedKinds(i)[1] = CopiedKinds(i)[2]

---------------------------------------------------------------------------
(* The destination path of an update copy.                                 *)

\* C26 as stated: every filesystem call the update handler of a Mismatch or
\* TypeMismatch pair really makes is at or below the path of the paired
\* destination entry.
Cex_C26 ==
  ModeUpdate(opts) =>
    \A i \in EvIdx("Mismatch") \cup EvIdx("TypeMismatch") :
      \A j \in HandlerOf(i) :
        trace[j].t = "op" /\ trace[j].real => IsPrefix(trace[i].q, trace[j].p)

---------------------------------------------------------------------------
(* Termination.                                                            *)

Terminated == pc \in {"done", "error"}

---------------------------------------------------------------------------
(* The filesystem after a failed check of SRCDIR or DSTDIR.                *)

PreconditionErrors ==
  {"SRCDIR does not exist!", "SRCDIR is not a directory!",
   "DSTDIR does not exist!", "DSTDIR is not a directory!"}

\* C28 as stated: a run that ends at a check of SRCDIR or DSTDIR has changed
\* nothing in the filesystem.
Cex_C28 == pc = "error" /\ err \in PreconditionErrors => fs = fs0

---------------------------------------------------------------------------
(* The destination of a SrcOnly entry.                                     *)

\* C29 as stated: when SrcOnly is dispatched for a source entry, the
\* destination directory holds no entry with its filename.
Cex_C29 ==
  [][\A i \in NewIdx :
       trace'[i].t = "ev" /\ trace'[i].what = "SrcOnly" =>
         LStat(fs, Append(trace'[i].q, Last(trace'[i].p))).kind = "none"]_vars

---------------------------------------------------------------------------
(* What a run that only deletes removes.                                   *)

DeleteOnly == ModeDelete(opts) /\ ~ModeNew(opts) /\ ~ModeUpdate(opts) /\ ~opts.dummyMode

RemoveIdx ==
  {k \in 1..Len(trace) : trace[k].t = "op" /\ trace[k].what = "remove" /\ trace[k].real}

\* Everything outside DSTDIR is as at the start of the run.
OutsideKept ==
  \A r \in DOMAIN fs0 \cup DOMAIN fs :
    ~IsPrefix(DSTDIR, r) => r \in DOMAIN fs0 /\ r \in DOMAIN fs /\ fs[r] = fs0[r]

\* C30 as stated: a run that only deletes removes nothing outside the
\* destination tree.
Cex_C30 == DeleteOnly => OutsideKept

\* What does hold of a run that only deletes (the part of C30 the code
\* keeps): every removed path is at or below the
\* path of a DstOnly entry of DSTDIR and is removed by the handler of its
\* event; without follow-symlinks the key of that entry is not a key of the
\* source directory, no directory above a removed path is a symbolic link,
\* and nothing outside DSTDIR changes.
Thm_C30 ==
  DeleteOnly =>
    /\ \A k \in RemoveIdx :
         \E i \in EvIdx("DstOnly") :
           /\ k \in HandlerOf(i)
           /\ IsPrefix(trace[i].q, trace[k].p)
           /\ IsPrefix(DSTDIR, trace[k].p)
           /\ ~opts.followSymlinks =>
                /\ Key(Last(trace[i].q), opts) \notin KeysOf(trace[i].p, TRUE)
                /\ LPlace(fs0, trace[k].p) = trace[k].p
    /\ ~opts.followSymlinks => OutsideKept

\* A finished run that only deletes, without follow-symlinks: the
\* destination-only link a to the directory DSTDIR/b was removed, and
\* DSTDIR/b, which SRCDIR has too, still holds its file.
Wit_C30 ==
  /\ pc = "done"
  /\ DeleteOnly /\ ~opts.followSymlinks
  /\ LStat(fs0, DSTDIR \o <<"a">>).target = DSTDIR \o <<"b">>
  /\ Kind0(SRCDIR \o <<"a">>) = "none"
  /\ Kind0(SRCDIR \o <<"b">>) = "dir"
  /\ \E k \in RemoveIdx : trace[k].p = DSTDIR \o <<"a">>
  /\ LStat(fs, DSTDIR \o <<"a">>).kind = "none"
  /\ LStat(fs, DSTDIR \o <<"b", "a">>).kind = "file"

====
